---- MODULE Spec2Model ----
(***************************************************************************)
(* A model of the document ingestion pipeline of finetuneana:              *)
(*   - ChunkingService (chunkText / chunkSimple / chunkWithHeadings),      *)
(*   - the ingestion routes POST /api/ingest-from-blob and POST            *)
(*     /api/ingest with the embedding retry ladder,                        *)
(*   - PineconeService.checkDuplicateFile and upsertVectors against a      *)
(*     vector store.                                                       *)
(* ChunkerTexts are sequences of one-character strings.  Offsets are 0-based as   *)
(* in the TypeScript source; sequences are 1-based, so text[i+1] is the    *)
(* character at offset i.                                                  *)
(***************************************************************************)
EXTENDS Integers, Sequences, FiniteSets, TLC

VARIABLES
  text,            \* chunkText: the text argument
  chunkSize,       \* config.chunkSize
  overlap,         \* config.overlap
  useHeadings,     \* config.useHeadings
  cpc,             \* position inside chunkText
  startIndex,      \* chunkSimple: the loop cursor
  chunks,          \* chunkSimple: the local list chunks
  iters,           \* chunkSimple: iterations of the while loop so far
  headingIndices,  \* chunkWithHeadings: offsets of the detected headings
  secI,            \* chunkWithHeadings: the for-loop index i
  result,          \* the list chunkText returns (chunkWithHeadings' chunks)
  discarded,       \* history: the slices chunkSimple dropped, as <<from, to>>
  lastStep,        \* history: what the last chunkSimple iteration did
  runs,            \* one record per ingestion request that is being handled
                   \* or was the last to be answered
  history,         \* history: what became of the requests answered earlier
  store,           \* the vector store: the records upserted, as the routes
                   \* can see them (id and metadata; values are never read)
  idCounter,       \* source of fresh uuid tokens
  clock,           \* source of upload timestamps
  pdfText,         \* enhanceTableText: the text pdf-parse extracted
  lines,           \* enhanceTableText: text.split('\n')
  lineI,           \* enhanceTableText: the for-loop index i
  inTable,         \* enhanceTableText
  tableRows,       \* enhanceTableText: the rows of the table being collected
  tableColumnCount,\* enhanceTableText
  enhancedLines,   \* enhanceTableText: the output lines
  tables,          \* history: the table blocks formatTable returned, with
                   \* the rows they were made of and how the run of rows ended
  ppc,             \* enhanceTableText: "idle", "loop", "end" or "done"
  files,           \* handleIngestion: the files of the multi-file controls
  fileI,           \* handleIngestion: the for-loop index i
  hpc,             \* handleIngestion: position within the handler
  loading,         \* handleIngestion: the loading flag
  allResults,      \* handleIngestion: the local result list
  results,         \* the component's results state
  summary          \* the counts logged under "=== Summary ==="

chunkVars == <<text, chunkSize, overlap, useHeadings, cpc, startIndex, chunks,
               iters, headingIndices, secI, result, discarded, lastStep>>
ingestVars == <<runs, history, store, idCounter, clock>>
parserVars == <<pdfText, lines, lineI, inTable, tableRows, tableColumnCount,
                enhancedLines, tables, ppc>>
clientVars == <<files, fileI, hpc, loading, allResults, results, summary>>
vars == <<chunkVars, ingestVars, parserVars, clientVars>>

(***************************************************************************)
(* Characters and JavaScript string primitives                             *)
(***************************************************************************)
NL == "\n"
SP == " "

TAB == "\t"

IsWhitespace(c) == c \in {SP, NL, TAB}
IsUpper(c) == c = "A"
IsTerminator(c) == c \in {".", "!", "?"}

Min(a, b) == IF a < b THEN a ELSE b
Max(a, b) == IF a > b THEN a ELSE b
SetMax(S) == CHOOSE x \in S : \A y \in S : y <= x
SetMin(S) == CHOOSE x \in S : \A y \in S : x <= y

Rep(c, n) == [i \in 1..n |-> c]

\* String.prototype.substring(a, b): both clamped to [0, length], swapped
\* when a > b.
Substring(s, a, b) ==
  LET ca == Max(0, Min(a, Len(s)))
      cb == Max(0, Min(b, Len(s)))
  IN  SubSeq(s, Min(ca, cb) + 1, Max(ca, cb))

\* String.prototype.trim()
Trim(s) ==
  LET keep == {i \in 1..Len(s) : ~IsWhitespace(s[i])}
  IN  IF keep = {} THEN <<>> ELSE SubSeq(s, SetMin(keep), SetMax(keep))

\* s.lastIndexOf('\n\n')
LastIndexOfParagraph(s) ==
  LET hits == {i \in 0..(Len(s) - 2) : s[i + 1] = NL /\ s[i + 2] = NL}
  IN  IF hits = {} THEN -1 ELSE SetMax(hits)

\* s.lastIndexOf(c) for a one-character c
LastIndexOf(s, c) ==
  LET hits == {i \in 0..(Len(s) - 1) : s[i + 1] = c}
  IN  IF hits = {} THEN -1 ELSE SetMax(hits)

\* The exec loop over /[.!?]\s+/g: match.index + match[0].length of the last
\* match, -1 when there is none.  A match is a terminator followed by the
\* maximal run of whitespace after it.
LastSentenceEnd(s) ==
  LET hits == {i \in 0..(Len(s) - 2) :
                 IsTerminator(s[i + 1]) /\ IsWhitespace(s[i + 2])}
  IN  IF hits = {} THEN -1
      ELSE LET i == SetMax(hits)
               \* s[j] is the character at offset j - 1
               stop == {j \in (i + 2)..Len(s) : ~IsWhitespace(s[j])}
           IN  IF stop = {} THEN Len(s) ELSE SetMin(stop) - 1

\* pos > chunkSize * (tenths / 10), compared in integers
Exceeds(pos, size, tenths) == 10 * pos > tenths * size

(***************************************************************************)
(* ChunkingService.chunkSimple: one iteration of the while loop            *)
(***************************************************************************)
MinChunkLen == 50

\* EndIndex without the clamp to text.length
EndIndexUnclamped(t, start, size) == start + size

\* const endIndex = Math.min(startIndex + chunkSize, text.length)
EndIndex(t, start, size) == Min(start + size, Len(t))

\* ActualEndIndex with the word boundary tried before the other boundaries
ActualEndIndexWordFirst(t, start, size) ==
  LET endIndex == EndIndex(t, start, size)
      chunkText == Substring(t, start, endIndex)
      lastParagraph == LastIndexOfParagraph(chunkText)
      lastSentenceEnd == LastSentenceEnd(chunkText)
      lastNewline == LastIndexOf(chunkText, NL)
      lastSpace == LastIndexOf(chunkText, SP)
  IN  IF endIndex < Len(t)
      THEN IF Exceeds(lastSpace, size, 7) THEN start + lastSpace + 1
           ELSE IF Exceeds(lastParagraph, size, 6) THEN start + lastParagraph + 2
           ELSE IF Exceeds(lastSentenceEnd, size, 5) THEN start + lastSentenceEnd
           ELSE IF Exceeds(lastNewline, size, 5) THEN start + lastNewline + 1
           ELSE endIndex
      ELSE endIndex

\* The boundary search: paragraph > sentence > newline > word > hard cut.
ActualEndIndex(t, start, size) ==
  LET endIndex == EndIndex(t, start, size)
      chunkText == Substring(t, start, endIndex)
      lastParagraph == LastIndexOfParagraph(chunkText)
      lastSentenceEnd == LastSentenceEnd(chunkText)
      lastNewline == LastIndexOf(chunkText, NL)
      lastSpace == LastIndexOf(chunkText, SP)
  IN  IF endIndex < Len(t)
      THEN IF Exceeds(lastParagraph, size, 6) THEN start + lastParagraph + 2
           ELSE IF Exceeds(lastSentenceEnd, size, 5) THEN start + lastSentenceEnd
           ELSE IF Exceeds(lastNewline, size, 5) THEN start + lastNewline + 1
           ELSE IF Exceeds(lastSpace, size, 7) THEN start + lastSpace + 1
           ELSE endIndex
      ELSE endIndex

\* const chunkTextFinal = text.substring(startIndex, actualEndIndex).trim()
ChunkTextFinal(t, start, end) == Trim(Substring(t, start, end))

\* if (chunkTextFinal.length > 50)
IsMeaningful(final) == Len(final) > MinChunkLen

\* NextStart without the monotonic-advance clamp
NextStartNoClamp(chunkStart, chunkEnd, ov) == chunkEnd - ov

\* NextStart stepping back by twice the overlap
NextStartDoubleOverlap(chunkStart, chunkEnd, ov) ==
  IF chunkEnd - 2 * ov <= chunkStart THEN chunkEnd ELSE chunkEnd - 2 * ov

\* startIndex = actualEndIndex - overlap, and back to the chunk's end when
\* that does not pass the chunk's own start
NextStart(chunkStart, chunkEnd, ov) ==
  IF chunkEnd - ov <= chunkStart THEN chunkEnd ELSE chunkEnd - ov

\* the record pushed by chunkSimple; id k stands for `chunk-${k}`
NewChunk(k, final, start, end) ==
  [id |-> k, text |-> final, startIndex |-> start, endIndex |-> end]

(***************************************************************************)
(* ChunkingService.chunkWithHeadings: heading detection                    *)
(***************************************************************************)
CapsHeadingMaxLen == 100
ShortLineMaxLen == 80
MaxHashes == 6

\* the offsets at which the lines of text.split('\n') start (currentIndex)
LineStarts(t) == {0} \cup {i + 1 : i \in {j \in 0..(Len(t) - 1) : t[j + 1] = NL}}

\* the offset just past the line that starts at ls
LineEnd(t, ls) ==
  LET nls == {j \in ls..(Len(t) - 1) : t[j + 1] = NL}
  IN  IF nls = {} THEN Len(t) ELSE SetMin(nls)

\* i < lines.length - 1
NotLastLine(t, ls) == \E j \in ls..(Len(t) - 1) : t[j + 1] = NL

\* /^#{1,6}\s/.test(line)
HashHeading(line) ==
  LET other == {i \in 1..Len(line) : line[i] # "#"}
      k == IF other = {} THEN Len(line) ELSE SetMin(other) - 1
  IN  /\ other # {}
      /\ k >= 1
      /\ \E m \in 1..Min(k, MaxHashes) : IsWhitespace(line[m + 1])

\* the isHeading test on lines[i].trim()
IsHeading(t, ls) ==
  LET line == Trim(Substring(t, ls, LineEnd(t, ls)))
  IN  \/ /\ Len(line) < CapsHeadingMaxLen
         /\ Len(line) >= 1
         /\ \A i \in 1..Len(line) :
              IsUpper(line[i]) \/ IsWhitespace(line[i]) \/ line[i] = "#"
      \/ HashHeading(line)
      \/ /\ Len(line) < ShortLineMaxLen
         /\ Len(line) > 0
         /\ NotLastLine(t, ls)

RECURSIVE SortedSeq(_)
SortedSeq(S) ==
  IF S = {} THEN <<>> ELSE LET m == SetMin(S) IN <<m>> \o SortedSeq(S \ {m})

\* the list headingIndices after the detection loop
DetectHeadings(t) == SortedSeq({ls \in LineStarts(t) : IsHeading(t, ls)})

\* headingStart and headingEnd of section i (1-based here)
HeadingStart(hs, i) == hs[i]
HeadingEnd(t, hs, i) == IF i < Len(hs) THEN hs[i + 1] ELSE Len(t)
SectionText(t, hs, i) == Substring(t, HeadingStart(hs, i), HeadingEnd(t, hs, i))

\* if (sectionText.length > chunkSize)
SectionNeedsSplit(section, size) == Len(section) > size

\* the chunk pushed for a section that is not split
SectionChunk(k, t, hs, i) ==
  [id |-> k, text |-> Trim(SectionText(t, hs, i)),
   startIndex |-> HeadingStart(hs, i), endIndex |-> HeadingEnd(t, hs, i)]

\* TranslateChunk leaving the offsets relative to the section
TranslateChunkLocal(c, k, headingStart) == [c EXCEPT !.id = k]

\* sectionChunks.forEach: sub-chunks renumbered and translated by headingStart
TranslateChunk(c, k, headingStart) ==
  [id |-> k, text |-> c.text,
   startIndex |-> c.startIndex + headingStart,
   endIndex |-> c.endIndex + headingStart]

TranslateAll(acc, sub, headingStart) ==
  acc \o [j \in 1..Len(sub) |-> TranslateChunk(sub[j], Len(acc) + j - 1, headingStart)]

(***************************************************************************)
(* chunkText as a state machine.  cpc:                                     *)
(*   "call"      chunkText has been called                                 *)
(*   "simple"    in the while loop of chunkSimple(text)                    *)
(*   "sections"  in the for loop of chunkWithHeadings                      *)
(*   "sub"       in the while loop of chunkSimple(sectionText)             *)
(*   "done"      chunkText has returned result                             *)
(*   "idle"      no chunkText call is being modelled                       *)
(***************************************************************************)
MaxIters == 12

\* the text the running chunkSimple was called with, and where it starts
\* in the text chunkText was called with
CurText == IF cpc = "sub" THEN SectionText(text, headingIndices, secI) ELSE text
CurBase == IF cpc = "sub" THEN HeadingStart(headingIndices, secI) ELSE 0

ChunkText ==
  /\ cpc = "call"
  /\ IF useHeadings /\ DetectHeadings(text) # <<>>
     THEN /\ headingIndices' = DetectHeadings(text)
          /\ secI' = 1
          /\ cpc' = "sections"
     ELSE /\ cpc' = "simple"
          /\ UNCHANGED <<headingIndices, secI>>
  /\ startIndex' = 0
  /\ chunks' = <<>>
  /\ iters' = 0
  /\ UNCHANGED <<text, chunkSize, overlap, useHeadings, result, discarded,
                 lastStep, ingestVars, parserVars, clientVars>>

\* one iteration of while (startIndex < text.length)
SimpleIter ==
  /\ cpc \in {"simple", "sub"}
  /\ startIndex < Len(CurText)
  /\ iters < MaxIters
  /\ LET t == CurText
         actualEndIndex == ActualEndIndex(t, startIndex, chunkSize)
         final == ChunkTextFinal(t, startIndex, actualEndIndex)
     IN  IF IsMeaningful(final)
         THEN /\ chunks' = Append(chunks,
                     NewChunk(Len(chunks), final, startIndex, actualEndIndex))
              /\ startIndex' = NextStart(startIndex, actualEndIndex, overlap)
              /\ discarded' = discarded
              /\ lastStep' = [kind |-> "emit", from |-> startIndex,
                              to |-> actualEndIndex]
         ELSE /\ startIndex' = actualEndIndex
              /\ chunks' = chunks
              /\ discarded' = discarded \cup
                     {<<CurBase + startIndex, CurBase + actualEndIndex>>}
              /\ lastStep' = [kind |-> "discard", from |-> startIndex,
                              to |-> actualEndIndex]
  /\ iters' = iters + 1
  /\ UNCHANGED <<text, chunkSize, overlap, useHeadings, cpc, headingIndices,
                 secI, result, ingestVars, parserVars, clientVars>>

\* chunkSimple(text) returns and chunkText returns its list
SimpleReturn ==
  /\ cpc = "simple"
  /\ startIndex >= Len(text)
  /\ result' = chunks
  /\ cpc' = "done"
  /\ UNCHANGED <<text, chunkSize, overlap, useHeadings, startIndex, chunks,
                 iters, headingIndices, secI, discarded, lastStep, ingestVars, parserVars, clientVars>>

\* one section of the for loop: split it with chunkSimple or push it whole
SectionStep ==
  /\ cpc = "sections"
  /\ secI <= Len(headingIndices)
  /\ IF SectionNeedsSplit(SectionText(text, headingIndices, secI), chunkSize)
     THEN /\ cpc' = "sub"
          /\ startIndex' = 0
          /\ chunks' = <<>>
          /\ iters' = 0
          /\ UNCHANGED <<result, secI>>
     ELSE /\ result' = Append(result,
                 SectionChunk(Len(result), text, headingIndices, secI))
          /\ secI' = secI + 1
          /\ UNCHANGED <<cpc, startIndex, chunks, iters>>
  /\ UNCHANGED <<text, chunkSize, overlap, useHeadings, headingIndices,
                 discarded, lastStep, ingestVars, parserVars, clientVars>>

\* chunkSimple(sectionText) returns: its chunks are translated and pushed
SubReturn ==
  /\ cpc = "sub"
  /\ startIndex >= Len(CurText)
  /\ result' = TranslateAll(result, chunks, CurBase)
  /\ secI' = secI + 1
  /\ cpc' = "sections"
  /\ UNCHANGED <<text, chunkSize, overlap, useHeadings, startIndex, chunks,
                 iters, headingIndices, discarded, lastStep, ingestVars, parserVars, clientVars>>

\* the for loop is over: chunkWithHeadings returns chunks
HeadingsReturn ==
  /\ cpc = "sections"
  /\ secI > Len(headingIndices)
  /\ cpc' = "done"
  /\ UNCHANGED <<text, chunkSize, overlap, useHeadings, startIndex, chunks,
                 iters, headingIndices, secI, result, discarded, lastStep,
                 ingestVars, parserVars, clientVars>>

(***************************************************************************)
(* The chunker on its own: every text of a small family under every        *)
(* configuration                                                           *)
(***************************************************************************)
ShortRun == 3
MidRun == 55
LongRun == 85

LetterRuns == {Rep("A", ShortRun), Rep("a", MidRun), Rep("a", LongRun)}
Seps == {<<>>, <<SP>>, <<NL>>, <<NL, NL>>, <<".", SP>>}
Pieces == {r \o p : r \in LetterRuns, p \in Seps}
ChunkerTexts == {<<>>} \cup Pieces \cup {a \o b : a \in Pieces, b \in Pieces}
           \cup {a \o b \o r : a \in Pieces, b \in Pieces, r \in LetterRuns}

ChunkSizes == {0, 60, 100}
Overlaps == {0, 20, 100}

IdleRuns == <<>>

\* enhanceTableText has not been called
ParserIdle ==
  /\ pdfText = <<>>
  /\ lines = <<>>
  /\ lineI = 0
  /\ inTable = FALSE
  /\ tableRows = <<>>
  /\ tableColumnCount = 0
  /\ enhancedLines = <<>>
  /\ tables = <<>>
  /\ ppc = "idle"

\* the multi-file controls are not in use
ClientIdle ==
  /\ files = <<>>
  /\ fileI = 0
  /\ hpc = "idle"
  /\ loading = FALSE
  /\ allResults = <<>>
  /\ results = <<>>
  /\ summary = [successCount |-> 0, failCount |-> 0, total |-> 0]

InitChunk ==
  /\ text \in ChunkerTexts
  /\ chunkSize \in ChunkSizes
  /\ overlap \in Overlaps
  /\ useHeadings \in BOOLEAN
  /\ cpc = "call"
  /\ startIndex = 0
  /\ chunks = <<>>
  /\ iters = 0
  /\ headingIndices = <<>>
  /\ secI = 0
  /\ result = <<>>
  /\ discarded = {}
  /\ lastStep = [kind |-> "none", from |-> 0, to |-> 0]
  /\ runs = IdleRuns
  /\ history = <<>>
  /\ store = {}
  /\ idCounter = 0
  /\ clock = 0
  /\ ParserIdle
  /\ ClientIdle

NextChunk ==
  \/ ChunkText
  \/ SimpleIter
  \/ SimpleReturn
  \/ SectionStep
  \/ SubReturn
  \/ HeadingsReturn

SpecChunk == InitChunk /\ [][NextChunk]_vars

(***************************************************************************)
(* Properties of the chunker                                               *)
(***************************************************************************)
InRange(p, c) == c.startIndex <= p /\ p < c.endIndex

StartsIncrease(cs) ==
  \A j \in 1..(Len(cs) - 1) : cs[j].startIndex < cs[j + 1].startIndex

\* C1: chunkText terminates for every text and every configuration: the
\* while loop of chunkSimple never runs more iterations than the text it
\* was called with has characters (each iteration moves the cursor forward
\* by at least one, so the cursor reaches text.length).
C1_LoopBounded ==
  cpc \in {"simple", "sub"} => iters <= Len(CurText)

\* C2: in the list chunkText returns (and in every list it builds on the
\* way), each chunk's startIndex is strictly greater than the startIndex of
\* the chunk before it.
C2_StartsStrictlyIncrease ==
  StartsIncrease(result) /\ StartsIncrease(chunks)

C2_Witness ==
  /\ cpc = "done"
  /\ chunkSize > 0
  /\ overlap >= chunkSize
  /\ Len(result) >= 3

\* C3: every chunk chunkText returns satisfies
\* 0 <= startIndex < endIndex <= text.length, in both modes.
C3_OffsetsInText ==
  \A j \in 1..Len(result) :
    /\ 0 <= result[j].startIndex
    /\ result[j].startIndex < result[j].endIndex
    /\ result[j].endIndex <= Len(text)

C3_Witness ==
  /\ cpc = "done"
  /\ useHeadings
  /\ headingIndices # <<>>
  /\ \E j \in 1..Len(result) :
       /\ result[j].startIndex > headingIndices[Len(headingIndices)]
       /\ result[j].endIndex = Len(text)

\* C4: every chunk chunkText returns, in simple and in heading-guided mode,
\* has a text that is trimmed and longer than 50 characters.
C4_ChunksAreMeaningful ==
  \A j \in 1..Len(result) :
    /\ result[j].text = Trim(result[j].text)
    /\ Len(result[j].text) > MinChunkLen

\* C5: when chunkText has returned, every character offset of the text lies
\* in [startIndex, endIndex) of a returned chunk or in a slice that was
\* discarded for having a trimmed length of at most 50.
C5_Coverage ==
  cpc = "done" =>
    \A p \in 0..(Len(text) - 1) :
      \/ \E j \in 1..Len(result) : InRange(p, result[j])
      \/ \E d \in discarded : d[1] <= p /\ p < d[2]

(***************************************************************************)
(* Scenario 1: texts of 2500 characters, chunkSize 1000, overlap 200,      *)
(* simple mode.  The texts are words of one length separated by one        *)
(* separator, cut at 2500 characters.                                      *)
(***************************************************************************)
ScenarioLen == 2500
DefaultChunkSize == 1000
DefaultOverlap == 200

Periodic(unit, n) == [i \in 1..n |-> unit[((i - 1) % Len(unit)) + 1]]

WordLens == {9, 49, 99, 249, 499, 999}
ScenarioTexts ==
  {Periodic(Rep("a", w) \o p, ScenarioLen) : w \in WordLens, p \in Seps}

InitScenario1 ==
  /\ text \in ScenarioTexts
  /\ chunkSize = DefaultChunkSize
  /\ overlap = DefaultOverlap
  /\ useHeadings = FALSE
  /\ cpc = "call"
  /\ startIndex = 0
  /\ chunks = <<>>
  /\ iters = 0
  /\ headingIndices = <<>>
  /\ secI = 0
  /\ result = <<>>
  /\ discarded = {}
  /\ lastStep = [kind |-> "none", from |-> 0, to |-> 0]
  /\ runs = IdleRuns
  /\ history = <<>>
  /\ store = {}
  /\ idCounter = 0
  /\ clock = 0
  /\ ParserIdle
  /\ ClientIdle

NextScenario1 ==
  \/ ChunkText
  \/ SimpleIter
  \/ SimpleReturn

SpecScenario1 == InitScenario1 /\ [][NextScenario1]_vars

\* C6: a text of 2500 characters chunked with chunkSize = 1000,
\* overlap = 200, useHeadings = false gives exactly 3 chunks, each of at
\* least 50 characters, the second starting before the end of the first,
\* and the last ending at offset 2500.
C6_Scenario1 ==
  cpc = "done" =>
    /\ Len(result) = 3
    /\ \A j \in 1..Len(result) : Len(result[j].text) >= MinChunkLen
    /\ result[2].startIndex < result[1].endIndex
    /\ result[Len(result)].endIndex = ScenarioLen

(***************************************************************************)
(* The ingestion routes.  A file is identified with its content: two       *)
(* uploads are byte-identical iff they are the same file, and the sha256   *)
(* digest of a file is the file itself.  FileChunks(f) is the number of    *)
(* chunks the chunker returns for the text extracted from file f; chunk i  *)
(* of file f has the text TextOf(f, i), a positive number.                 *)
(***************************************************************************)
Files == {1, 2}
LongFileChunks == 101
FileChunks(f) == IF f = 1 THEN 0 ELSE IF f = 2 THEN 7 ELSE LongFileChunks
FileNames == {"a.pdf", "b.csv"}

\* const extension = filename.toLowerCase().split('.').pop()
Extension(filename) ==
  CASE filename = "a.pdf" -> "pdf"
    [] filename = "b.csv" -> "csv"
    [] filename = "c.txt" -> "txt"

\* the cases of the switch in parseFile that do not throw
Supported(filename) == Extension(filename) \in {"pdf", "docx", "doc", "csv"}
Dims == {2, 3}
MaxRequests == 2

TextOf(f, i) == f * 1000 + i
PlaceholderText(f) == f * 1000 + 999
EmptyPlaceholderText(f) == f * 1000 + 998

\* the length of 'No text content extracted from this file. It may contain
\* only images or be encrypted.', and of the shortest text
\* `[File: ${filename}] - Parsing failed: ${parseError.message}.` can be
\* (a one-letter file name, whose extension is not supported)
EmptyPlaceholderLen == 85
ShortestFailurePlaceholderLen == 53

\* the pageCount the parser reports for file f
PagesOf(f) == f - 1

FileHash(f) == f

\* Array.prototype.slice(a, b) for 0 <= a
Slice(s, a, b) == SubSeq(s, a + 1, Min(b, Len(s)))

(***************************************************************************)
(* OpenAIService.generateEmbeddingsBatch                                   *)
(***************************************************************************)
EmbedBatchSize == 100

\* what the provider answers for one request: one embedding per input, each
\* of the requested length; the embedding of text t repeats t
ProviderEmbed(batch, dims) == [j \in 1..Len(batch) |-> [k \in 1..dims |-> batch[j]]]

\* the for loop over batches of 100, when no request fails
RECURSIVE EmbedLoop(_, _, _, _)
EmbedLoop(texts, dims, i, embeddings) ==
  IF i < Len(texts)
  THEN EmbedLoop(texts, dims, i + EmbedBatchSize,
                 embeddings \o ProviderEmbed(Slice(texts, i, i + EmbedBatchSize), dims))
  ELSE embeddings

GenerateEmbeddingsBatch(texts, dims) == EmbedLoop(texts, dims, 0, <<>>)

\* the number of requests the loop sends to the provider when none fails
ProviderRequests(texts) == (Len(texts) + EmbedBatchSize - 1) \div EmbedBatchSize

(***************************************************************************)
(* POST /api/ingest-from-blob: the embedding retry ladder                  *)
(***************************************************************************)
MaxRetries == 3

\* const batchSize = Math.max(1, Math.floor(texts.length / 3))
FallbackBatchSize(texts) == Max(1, Len(texts) \div 3)

\* const zeroVector = new Array(dimensions).fill(0)
ZeroVector(dims) == [k \in 1..dims |-> 0]

\* ZeroFill pushing one zero vector for the whole failed sub-batch
ZeroFillOnce(batch, dims) == <<ZeroVector(dims)>>

\* embeddings.push(...batch.map(() => zeroVector))
ZeroFill(batch, dims) == [j \in 1..Len(batch) |-> ZeroVector(dims)]

\* BatchWarning numbering the sub-batches from 0
BatchWarningZeroBased(i, batchSize) ==
  [kind |-> "embedding-batch-failed", batch |-> i \div batchSize]

\* `Batch ${Math.floor(i / batchSize) + 1} failed - using zero vectors`
BatchWarning(i, batchSize) == [kind |-> "embedding-batch-failed", batch |-> (i \div batchSize) + 1]

(***************************************************************************)
(* Vector records                                                          *)
(***************************************************************************)
\* ValuesAt reading one position too early
ValuesAtShifted(embeddings, index) ==
  IF 0 < index /\ index <= Len(embeddings) THEN embeddings[index] ELSE <<>>

\* embeddings[index]; an index past the end gives undefined, modelled as the
\* empty vector
ValuesAt(embeddings, index) ==
  IF index < Len(embeddings) THEN embeddings[index + 1] ELSE <<>>

\* BlobVector whose id is the chunk index alone, without the uuid
BlobVectorIndexId(r, chunk, index, token) ==
  [id |-> <<0, index>>,
   values |-> ValuesAt(r.embeddings, index),
   chunk_id |-> chunk.id,
   filename |-> r.filename,
   file_hash |-> FileHash(r.file),
   uploaded_at |-> r.uploadedAt,
   text |-> chunk.text]

\* chunks.map((chunk, index) => ({ id: `${uuidv4()}-${index}`, ... })) in
\* /api/ingest-from-blob; uuid tokens are drawn from idCounter
BlobVector(r, chunk, index, token) ==
  [id |-> <<token, index>>,
   values |-> ValuesAt(r.embeddings, index),
   chunk_id |-> chunk.id,
   filename |-> r.filename,
   file_hash |-> FileHash(r.file),
   uploaded_at |-> r.uploadedAt,
   text |-> chunk.text]

\* the same in /api/ingest, whose metadata has no file_hash and no
\* uploaded_at
FormVector(r, chunk, index, token) ==
  [id |-> <<token, index>>,
   values |-> ValuesAt(r.embeddings, index),
   chunk_id |-> chunk.id,
   filename |-> r.filename,
   file_hash |-> 0,      \* 0: the field is absent (files are numbered from 1)
   uploaded_at |-> 0,    \* 0: the field is absent (the clock starts at 1)
   text |-> chunk.text]

PrepareVectorsOf(r, firstToken) ==
  [j \in 1..Len(r.chunks) |->
     IF r.route = "blob"
     THEN BlobVector(r, r.chunks[j], j - 1, firstToken + j)
     ELSE FormVector(r, r.chunks[j], j - 1, firstToken + j)]

(***************************************************************************)
(* PineconeService                                                         *)
(***************************************************************************)
UpsertBatchSize == 100

\* MakeBatches with the batches in the reverse of their formation order
RECURSIVE MakeBatchesBackwards(_, _)
MakeBatchesBackwards(vectors, i) ==
  IF i < Len(vectors)
  THEN MakeBatchesBackwards(vectors, i + UpsertBatchSize)
         \o <<Slice(vectors, i, i + UpsertBatchSize)>>
  ELSE <<>>

\* upsertVectors: batches.push(vectors.slice(i, i + batchSize))
RECURSIVE MakeBatches(_, _)
MakeBatches(vectors, i) ==
  IF i < Len(vectors)
  THEN <<Slice(vectors, i, i + UpsertBatchSize)>> \o MakeBatches(vectors, i + UpsertBatchSize)
  ELSE <<>>

SeqRange(s) == {s[j] : j \in 1..Len(s)}

\* a record as the store keeps it for the routes: queries ask for the
\* metadata only
Stored(v) ==
  [id |-> v.id, chunk_id |-> v.chunk_id, filename |-> v.filename,
   file_hash |-> v.file_hash, uploaded_at |-> v.uploaded_at, text |-> v.text]

\* namespaceObj.upsert(batch): insert-or-replace by id
Upserted(st, batch) ==
  {v \in st : \A w \in SeqRange(batch) : w.id # v.id}
    \cup {Stored(w) : w \in SeqRange(batch)}

\* checkDuplicateFile: the records the metadata filter
\* { file_hash: { $eq: fileHash } } matches
HashMatches(st, hash) == {v \in st : v.file_hash = hash}

\* getFileStats: the number of records with that filename
FileStatsCount(st, filename) == Cardinality({v \in st : v.filename = filename})

\* what getFileStats returns: the count, or 0 when its query throws (the
\* error is caught inside getFileStats)
FileStats(st, filename, statsOk) ==
  IF statsOk THEN FileStatsCount(st, filename) ELSE 0

\* what checkDuplicateFile returns for the match the store answered with
DuplicateInfo(st, match, statsOk) ==
  [filename |-> match.filename,
   uploaded_at |-> match.uploaded_at,
   chunks_count |-> FileStats(st, match.filename, statsOk),
   vectors_count |-> FileStats(st, match.filename, statsOk)]

(***************************************************************************)
(* One ingestion request as a state machine.  pc:                          *)
(*   "hashed"    body read, file downloaded, sha256 and uploadedAt taken   *)
(*   "dupcheck"  awaiting checkDuplicateFile                               *)
(*   "parse"     awaiting parseFile                                        *)
(*   "fallback-parse"  awaiting the fallback parsePDF                      *)
(*   "chunk"     about to call chunkText                                   *)
(*   "embed"     in the while loop, awaiting generateEmbeddingsBatch       *)
(*   "subbatch"  in the sub-batch loop                                     *)
(*   "vectors"   about to build the vector records                         *)
(*   "upsert"    in upsertVectors, awaiting the upsert of a batch          *)
(*   "done"      the response has been returned                            *)
(* embedLog is a history field: one entry per generateEmbeddingsBatch call *)
(* of the route, with the offset of its first text and its outcome.        *)
(* dupError is a history field: which request of checkDuplicateFile raised *)
(* an error, if any.                                                       *)
(* upsertLog is a history field: one entry per namespaceObj.upsert call,   *)
(* with the ids of the records sent and the outcome.                       *)
(***************************************************************************)
NoResponse == [status |-> 0, code |-> "NONE"]

NewRun(route, file, filename, force, dims, now) ==
  [route |-> route, file |-> file, filename |-> filename,
   forceUpload |-> force, dimensions |-> dims,
   pc |-> "hashed", uploadedAt |-> now,
   parsed |-> "none", pageCount |-> 0, parseWarnings |-> <<>>,
   chunks |-> <<>>, retryCount |-> 0, firstError |-> "none", embeddings |-> <<>>,
   embeddingWarnings |-> <<>>, subI |-> 0,
   vectors |-> <<>>, batchesDone |-> 0,
   dupCalls |-> 0, dupError |-> "none", parseCalls |-> 0, embedCalls |-> 0, providerCalls |-> 0,
   embedLog |-> <<>>, upsertCalls |-> 0, upsertLog |-> <<>>,
   written |-> 0, response |-> NoResponse]

InFlight(r) == r.pc # "done"

\* what is remembered of a request once it has been answered and another
\* one arrives: the handler's locals are gone
Summary(r) ==
  [route |-> r.route, file |-> r.file, filename |-> r.filename,
   uploadedAt |-> r.uploadedAt, status |-> r.response.status,
   code |-> r.response.code, written |-> r.written,
   named |-> IF r.response.code = "DUPLICATE_FILE"
             THEN r.response.existingFile.filename ELSE "",
   left |-> 0]

Summaries(rs) == [j \in 1..Len(rs) |-> Summary(rs[j])]
Answered(r) == ~InFlight(r)

\* a new request arrives at one of the two routes; requests are handled one
\* after the other
Receive ==
  /\ Len(history) + Len(runs) < MaxRequests
  /\ \A j \in 1..Len(runs) : ~InFlight(runs[j])
  /\ \E route \in {"blob", "form"}, file \in Files, filename \in FileNames,
        force \in BOOLEAN, dims \in Dims :
       /\ route = "form" => ~force
       /\ runs' = Append(SelectSeq(runs, InFlight),
                         NewRun(route, file, filename, force, dims, clock + 1))
  /\ history' = history \o Summaries(SelectSeq(runs, Answered))
  /\ clock' = clock + 1
  /\ UNCHANGED <<store, idCounter, chunkVars, parserVars, clientVars>>

SetRun(j, r) == runs' = [runs EXCEPT ![j] = r]

Respond(r, resp) == [r EXCEPT !.pc = "done", !.response = resp]

\* { error: error.message }, { status: 500 }
ErrorResponse(message) == [status |-> 500, code |-> "ERROR", error |-> message]

DuplicateResponse(dup) ==
  [status |-> 409, code |-> "DUPLICATE_FILE",
   existingFile |-> [filename |-> dup.filename, uploaded_at |-> dup.uploaded_at,
                     chunks_count |-> dup.chunks_count,
                     vectors_count |-> dup.vectors_count]]

SuccessResponse(r, totalVectors, batches) ==
  [status |-> 200, code |-> "OK",
   chunksCreated |-> Len(r.chunks), vectorsUpserted |-> totalVectors,
   batches |-> batches,
   warnings |-> r.parseWarnings \o r.embeddingWarnings]

\* ReturnDuplicate without the return: the handler goes on to parse
ReturnDuplicateFallThrough(r, dup) ==
  [r EXCEPT !.pc = "parse", !.response = DuplicateResponse(dup)]

\* if (duplicate) { return NextResponse.json({ code: 'DUPLICATE_FILE', ... }) }
ReturnDuplicate(r, dup) == Respond(r, DuplicateResponse(dup))

\* if (!forceUpload) in /api/ingest-from-blob; /api/ingest has no check
AfterHash(j) ==
  /\ runs[j].pc = "hashed"
  /\ IF runs[j].route = "blob" /\ ~runs[j].forceUpload
     THEN SetRun(j, [runs[j] EXCEPT !.pc = "dupcheck"])
     ELSE SetRun(j, [runs[j] EXCEPT !.pc = "parse"])
  /\ UNCHANGED <<history, store, idCounter, clock, chunkVars, parserVars, clientVars>>

\* checkDuplicateFile answers with a record that has the hash; the query
\* of getFileStats may have failed on the way
DupCheckFound(j) ==
  /\ runs[j].pc = "dupcheck"
  /\ \E match \in HashMatches(store, FileHash(runs[j].file)), statsOk \in BOOLEAN :
       SetRun(j, ReturnDuplicate([runs[j] EXCEPT !.dupCalls = @ + 1,
                                    !.dupError = IF statsOk THEN @ ELSE "file-stats"],
                                 DuplicateInfo(store, match, statsOk)))
  /\ UNCHANGED <<history, store, idCounter, clock, chunkVars, parserVars, clientVars>>

\* checkDuplicateFile answers null: nothing matches
DupCheckNone(j) ==
  /\ runs[j].pc = "dupcheck"
  /\ HashMatches(store, FileHash(runs[j].file)) = {}
  /\ SetRun(j, [runs[j] EXCEPT !.pc = "parse", !.dupCalls = @ + 1])
  /\ UNCHANGED <<history, store, idCounter, clock, chunkVars, parserVars, clientVars>>

\* checkDuplicateFile answers null because the query or getIndexStats threw
DupCheckError(j) ==
  /\ runs[j].pc = "dupcheck"
  /\ SetRun(j, [runs[j] EXCEPT !.pc = "parse", !.dupCalls = @ + 1,
                               !.dupError = "query-or-index-stats"])
  /\ UNCHANGED <<history, store, idCounter, clock, chunkVars, parserVars, clientVars>>

(***************************************************************************)
(* Parsing and chunking                                                    *)
(***************************************************************************)
IsPdf(filename) == Extension(filename) = "pdf"

\* the message of the error parseFile throws
ParseErrorMessage(filename) ==
  IF Supported(filename) THEN "Failed to parse file" ELSE "Unsupported file type"

\* parseFile returns a text with characters in it
ParseOk(j) ==
  /\ runs[j].pc = "parse"
  /\ Supported(runs[j].filename)
  /\ SetRun(j, [runs[j] EXCEPT !.pc = "chunk", !.parsed = "text",
                               !.pageCount = PagesOf(runs[j].file),
                               !.parseCalls = @ + 1])
  /\ UNCHANGED <<history, store, idCounter, clock, chunkVars, parserVars, clientVars>>

\* parseFile returns an empty text: /api/ingest-from-blob substitutes a
\* placeholder and warns, /api/ingest chunks the empty text
ParseEmpty(j) ==
  /\ runs[j].pc = "parse"
  /\ Supported(runs[j].filename)
  /\ IF runs[j].route = "blob"
     THEN SetRun(j, [runs[j] EXCEPT !.pc = "chunk", !.parsed = "empty-placeholder",
                       !.pageCount = IF PagesOf(runs[j].file) = 0 THEN 1
                                     ELSE PagesOf(runs[j].file),
                       !.parseWarnings = Append(@, "empty"),
                       !.parseCalls = @ + 1])
     ELSE SetRun(j, [runs[j] EXCEPT !.pc = "chunk", !.parsed = "empty",
                       !.pageCount = PagesOf(runs[j].file),
                       !.parseCalls = @ + 1])
  /\ UNCHANGED <<history, store, idCounter, clock, chunkVars, parserVars, clientVars>>

\* parseFile throws, as it always does for an unsupported extension:
\* /api/ingest-from-blob tries parsePDF for a pdf and otherwise substitutes a
\* placeholder; /api/ingest answers 500
ParseThrows(j) ==
  /\ runs[j].pc = "parse"
  /\ IF runs[j].route = "blob"
     THEN IF IsPdf(runs[j].filename)
          THEN SetRun(j, [runs[j] EXCEPT !.pc = "fallback-parse",
                            !.parseWarnings = Append(@, "initial-parse-failed"),
                            !.parseCalls = @ + 1])
          ELSE SetRun(j, [runs[j] EXCEPT !.pc = "chunk", !.parsed = "placeholder",
                            !.pageCount = 1,
                            !.parseWarnings = @ \o <<"initial-parse-failed",
                                                     "parsing-failed-placeholder">>,
                            !.parseCalls = @ + 1])
     ELSE SetRun(j, Respond([runs[j] EXCEPT !.parseCalls = @ + 1],
                            ErrorResponse(ParseErrorMessage(runs[j].filename))))
  /\ UNCHANGED <<history, store, idCounter, clock, chunkVars, parserVars, clientVars>>

\* the fallback parsePDF returns a text, or fails (throws or returns none)
FallbackParse(j) ==
  /\ runs[j].pc = "fallback-parse"
  /\ \E ok \in BOOLEAN :
       IF ok
       THEN SetRun(j, [runs[j] EXCEPT !.pc = "chunk", !.parsed = "text",
                         !.pageCount = PagesOf(runs[j].file),
                         !.parseWarnings = Append(@, "used-fallback"),
                         !.parseCalls = @ + 1])
       ELSE SetRun(j, [runs[j] EXCEPT !.pc = "chunk", !.parsed = "placeholder",
                         !.pageCount = 1,
                         !.parseWarnings = Append(@, "could-not-extract-placeholder"),
                         !.parseCalls = @ + 1])
  /\ UNCHANGED <<history, store, idCounter, clock, chunkVars, parserVars, clientVars>>

\* the list chunkText returns for a text of n characters that is shorter
\* than the chunk size: the whole text, if it passes the length filter of
\* chunkSimple
WholeTextChunks(n, chunkText) ==
  IF n > MinChunkLen THEN <<[id |-> 0, text |-> chunkText]>> ELSE <<>>

\* the list chunkText returns for the parsed text (see FileChunks); the
\* placeholder texts are shorter than the default chunk sizes
ChunksOf(r) ==
  IF r.parsed = "text"
  THEN [i \in 1..FileChunks(r.file) |-> [id |-> i - 1, text |-> TextOf(r.file, i)]]
  ELSE IF r.parsed = "placeholder"
  THEN WholeTextChunks(ShortestFailurePlaceholderLen, PlaceholderText(r.file))
  ELSE IF r.parsed = "empty-placeholder"
  THEN WholeTextChunks(EmptyPlaceholderLen, EmptyPlaceholderText(r.file))
  ELSE <<>>

Chunk(j) ==
  /\ runs[j].pc = "chunk"
  /\ SetRun(j, [runs[j] EXCEPT !.pc = "embed", !.chunks = ChunksOf(runs[j])])
  /\ UNCHANGED <<history, store, idCounter, clock, chunkVars, parserVars, clientVars>>

\* const texts = chunks.map((chunk) => chunk.text)
TextsOf(r) == [i \in 1..Len(r.chunks) |-> r.chunks[i].text]

(***************************************************************************)
(* Embedding                                                               *)
(***************************************************************************)
EmbedCall(kind, from, ok) == [kind |-> kind, from |-> from, ok |-> ok]

\* RetriesExhausted letting one more attempt through
RetriesExhaustedLate(retryCount) == retryCount > MaxRetries

\* if (retryCount >= maxRetries)
RetriesExhausted(retryCount) == retryCount >= MaxRetries

\* generateEmbeddingsBatch(texts, dimensions) returns
EmbedOk(j) ==
  /\ runs[j].pc = "embed"
  /\ runs[j].retryCount < MaxRetries
  /\ SetRun(j, [runs[j] EXCEPT !.pc = "vectors",
                  !.embeddings = GenerateEmbeddingsBatch(TextsOf(runs[j]), runs[j].dimensions),
                  !.embedCalls = @ + 1,
                  !.embedLog = Append(@, EmbedCall("full", 0, TRUE)),
                  !.providerCalls = @ + ProviderRequests(TextsOf(runs[j]))])
  /\ UNCHANGED <<history, store, idCounter, clock, chunkVars, parserVars, clientVars>>

\* why a provider request failed: a passing condition (rate limit, network)
\* or one no retry can cure (invalid API key, unknown model)
ErrorReasons == {"transient", "config"}

\* generateEmbeddingsBatch throws (a provider request failed, so there is
\* at least one text): /api/ingest answers 500; /api/ingest-from-blob counts
\* the attempt, backs off, and after the third starts the sub-batch loop.
\* Neither route looks at the error; firstError remembers the reason of the
\* failure of the first attempt.
EmbedFail(j) ==
  /\ runs[j].pc = "embed"
  /\ runs[j].retryCount < MaxRetries
  /\ Len(runs[j].chunks) > 0
  /\ \E reason \in ErrorReasons, sent \in 1..ProviderRequests(TextsOf(runs[j])) :
       LET r == [runs[j] EXCEPT !.embedCalls = @ + 1,
                               !.embedLog = Append(@, EmbedCall("full", 0, FALSE)),
                               !.providerCalls = @ + sent,
                               !.firstError = IF runs[j].embedCalls = 0 THEN reason ELSE @]
       IN  IF r.route = "form"
           THEN SetRun(j, Respond(r, ErrorResponse("embedding request failed")))
           ELSE IF RetriesExhausted(r.retryCount + 1)
           THEN SetRun(j, [r EXCEPT !.retryCount = @ + 1,
                             !.pc = "subbatch", !.embeddings = <<>>, !.subI = 0])
           ELSE SetRun(j, [r EXCEPT !.retryCount = @ + 1])
  /\ UNCHANGED <<history, store, idCounter, clock, chunkVars, parserVars, clientVars>>

\* AfterSubBatch sending the run back to the chunker when the loop is over
AfterSubBatchRechunk(r, i) ==
  IF i + FallbackBatchSize(TextsOf(r)) < Len(r.chunks) THEN "subbatch" ELSE "chunk"

\* where the run goes after the sub-batch at offset i: the next sub-batch,
\* or out of both loops
AfterSubBatch(r, i) ==
  IF i + FallbackBatchSize(TextsOf(r)) < Len(r.chunks) THEN "subbatch" ELSE "vectors"

\* one sub-batch is embedded
SubBatchOk(j) ==
  /\ runs[j].pc = "subbatch"
  /\ LET r == runs[j]
         batchSize == FallbackBatchSize(TextsOf(r))
         batch == Slice(TextsOf(r), r.subI, r.subI + batchSize)
     IN  SetRun(j, [r EXCEPT !.embeddings = @ \o GenerateEmbeddingsBatch(batch, r.dimensions),
                             !.subI = @ + batchSize,
                             !.embedCalls = @ + 1,
                             !.embedLog = Append(@, EmbedCall("sub", r.subI, TRUE)),
                             !.providerCalls = @ + ProviderRequests(batch),
                             !.pc = AfterSubBatch(r, r.subI)])
  /\ UNCHANGED <<history, store, idCounter, clock, chunkVars, parserVars, clientVars>>

\* one sub-batch fails: zero vectors and a warning
SubBatchFail(j) ==
  /\ runs[j].pc = "subbatch"
  /\ LET r == runs[j]
         batchSize == FallbackBatchSize(TextsOf(r))
         batch == Slice(TextsOf(r), r.subI, r.subI + batchSize)
     IN  SetRun(j, [r EXCEPT !.embeddings = @ \o ZeroFill(batch, r.dimensions),
                             !.embeddingWarnings = Append(@, BatchWarning(r.subI, batchSize)),
                             !.subI = @ + batchSize,
                             !.embedCalls = @ + 1,
                             !.embedLog = Append(@, EmbedCall("sub", r.subI, FALSE)),
                             !.providerCalls = @ + 1,
                             !.pc = AfterSubBatch(r, r.subI)])
  /\ UNCHANGED <<history, store, idCounter, clock, chunkVars, parserVars, clientVars>>

(***************************************************************************)
(* Vector construction and upsert                                          *)
(***************************************************************************)
UpsertCall(batch, ok) == [ids |-> [k \in 1..Len(batch) |-> batch[k].id], ok |-> ok]

PrepareVectors(j) ==
  /\ runs[j].pc = "vectors"
  /\ SetRun(j, [runs[j] EXCEPT !.pc = "upsert", !.batchesDone = 0,
                               !.vectors = PrepareVectorsOf(runs[j], idCounter)])
  /\ idCounter' = idCounter + Len(runs[j].chunks)
  /\ UNCHANGED <<history, store, clock, chunkVars, parserVars, clientVars>>

\* await namespaceObj.upsert(batch) succeeds; after the last batch
\* upsertVectors returns and the route answers with the stats
UpsertBatchOk(j) ==
  /\ runs[j].pc = "upsert"
  /\ LET r == runs[j]
         batches == MakeBatches(r.vectors, 0)
     IN  /\ r.batchesDone < Len(batches)
         /\ store' = Upserted(store, batches[r.batchesDone + 1])
         /\ LET r2 == [r EXCEPT !.batchesDone = @ + 1, !.upsertCalls = @ + 1,
                                !.upsertLog = Append(@,
                                    UpsertCall(batches[r.batchesDone + 1], TRUE)),
                                !.written = @ + Len(batches[r.batchesDone + 1])]
            IN  IF r.batchesDone + 1 = Len(batches)
                THEN SetRun(j, Respond(r2, SuccessResponse(r, Len(r.vectors),
                                                           r.batchesDone + 1)))
                ELSE SetRun(j, r2)
  /\ UNCHANGED <<history, idCounter, clock, chunkVars, parserVars, clientVars>>

\* await namespaceObj.upsert(batch) throws: upsertVectors rethrows and the
\* route answers 500 with the error message
UpsertBatchFail(j) ==
  /\ runs[j].pc = "upsert"
  /\ runs[j].batchesDone < Len(MakeBatches(runs[j].vectors, 0))
  /\ SetRun(j, Respond([runs[j] EXCEPT !.upsertCalls = @ + 1,
                          !.upsertLog = Append(@,
                              UpsertCall(MakeBatches(runs[j].vectors, 0)[runs[j].batchesDone + 1],
                                         FALSE))],
                       ErrorResponse("upsert request failed")))
  /\ UNCHANGED <<history, store, idCounter, clock, chunkVars, parserVars, clientVars>>

\* there is no batch: upsertVectors returns without calling the store
UpsertNothing(j) ==
  /\ runs[j].pc = "upsert"
  /\ MakeBatches(runs[j].vectors, 0) = <<>>
  /\ SetRun(j, Respond(runs[j], SuccessResponse(runs[j], Len(runs[j].vectors), 0)))
  /\ UNCHANGED <<history, store, idCounter, clock, chunkVars, parserVars, clientVars>>

(***************************************************************************)
(* The ingestion routes against one index and namespace                    *)
(***************************************************************************)
InitIngest ==
  /\ runs = <<>>
  /\ history = <<>>
  /\ store = {}
  /\ idCounter = 0
  /\ clock = 0
  /\ text = <<>>
  /\ chunkSize = DefaultChunkSize
  /\ overlap = DefaultOverlap
  /\ useHeadings = FALSE
  /\ cpc = "idle"
  /\ startIndex = 0
  /\ chunks = <<>>
  /\ iters = 0
  /\ headingIndices = <<>>
  /\ secI = 0
  /\ result = <<>>
  /\ discarded = {}
  /\ lastStep = [kind |-> "none", from |-> 0, to |-> 0]
  /\ ParserIdle
  /\ ClientIdle

NextIngest ==
  \/ Receive
  \/ \E j \in 1..Len(runs) : AfterHash(j)
  \/ \E j \in 1..Len(runs) : DupCheckFound(j)
  \/ \E j \in 1..Len(runs) : DupCheckNone(j)
  \/ \E j \in 1..Len(runs) : DupCheckError(j)
  \/ \E j \in 1..Len(runs) : ParseOk(j)
  \/ \E j \in 1..Len(runs) : ParseEmpty(j)
  \/ \E j \in 1..Len(runs) : ParseThrows(j)
  \/ \E j \in 1..Len(runs) : FallbackParse(j)
  \/ \E j \in 1..Len(runs) : Chunk(j)
  \/ \E j \in 1..Len(runs) : EmbedOk(j)
  \/ \E j \in 1..Len(runs) : EmbedFail(j)
  \/ \E j \in 1..Len(runs) : SubBatchOk(j)
  \/ \E j \in 1..Len(runs) : SubBatchFail(j)
  \/ \E j \in 1..Len(runs) : PrepareVectors(j)
  \/ \E j \in 1..Len(runs) : UpsertBatchOk(j)
  \/ \E j \in 1..Len(runs) : UpsertBatchFail(j)
  \/ \E j \in 1..Len(runs) : UpsertNothing(j)

SpecIngest == InitIngest /\ [][NextIngest]_vars

(***************************************************************************)
(* One request against an empty namespace, over a wider set of uploads:    *)
(* a file name with an extension parseFile does not know, and a file long  *)
(* enough for upsertVectors to make more than one batch.                   *)
(***************************************************************************)
SingleFiles == Files \cup {3}
SingleFileNames == FileNames \cup {"c.txt"}

ReceiveSingle ==
  /\ runs = <<>>
  /\ \E route \in {"blob", "form"}, file \in SingleFiles,
        filename \in SingleFileNames, force \in BOOLEAN, dims \in Dims :
       /\ route = "form" => ~force
       /\ runs' = <<NewRun(route, file, filename, force, dims, clock + 1)>>
  /\ clock' = clock + 1
  /\ UNCHANGED <<history, store, idCounter, chunkVars, parserVars, clientVars>>

NextSingle ==
  \/ ReceiveSingle
  \/ \E j \in 1..Len(runs) : AfterHash(j)
  \/ \E j \in 1..Len(runs) : DupCheckNone(j)
  \/ \E j \in 1..Len(runs) : DupCheckError(j)
  \/ \E j \in 1..Len(runs) : ParseOk(j)
  \/ \E j \in 1..Len(runs) : ParseEmpty(j)
  \/ \E j \in 1..Len(runs) : ParseThrows(j)
  \/ \E j \in 1..Len(runs) : FallbackParse(j)
  \/ \E j \in 1..Len(runs) : Chunk(j)
  \/ \E j \in 1..Len(runs) : EmbedOk(j)
  \/ \E j \in 1..Len(runs) : EmbedFail(j)
  \/ \E j \in 1..Len(runs) : SubBatchOk(j)
  \/ \E j \in 1..Len(runs) : SubBatchFail(j)
  \/ \E j \in 1..Len(runs) : PrepareVectors(j)
  \/ \E j \in 1..Len(runs) : UpsertBatchOk(j)
  \/ \E j \in 1..Len(runs) : UpsertBatchFail(j)
  \/ \E j \in 1..Len(runs) : UpsertNothing(j)

SpecSingle == InitIngest /\ [][NextSingle]_vars

\* the handler is one async function: every await it makes is answered, by
\* a value or by an error, and the handler then goes on
SpecSingleFair == SpecSingle /\ WF_vars(NextSingle)

(***************************************************************************)
(* Properties of the ingestion routes                                      *)
(***************************************************************************)
HasShape(vs, n, dims) ==
  /\ Len(vs) = n
  /\ \A k \in 1..Len(vs) : Len(vs[k]) = dims

\* C7: on every path that reaches vector construction (first attempt,
\* a later attempt, the sub-batch loop with any sub-batches failing) there
\* are as many embedding vectors as chunk texts and every vector has
\* length dimensions; the vector records built from them have the same
\* shape.
C7_ShapeInvariant ==
  \A j \in 1..Len(runs) :
    LET r == runs[j] IN
    /\ r.pc = "vectors" => HasShape(r.embeddings, Len(TextsOf(r)), r.dimensions)
    /\ r.pc = "upsert" =>
         HasShape([k \in 1..Len(r.vectors) |-> r.vectors[k].values],
                  Len(r.chunks), r.dimensions)

C7_Witness ==
  \E j \in 1..Len(runs) :
    LET r == runs[j] IN
    /\ r.pc = "vectors"
    /\ r.retryCount = MaxRetries
    /\ Len(r.chunks) > MaxRetries
    /\ Len(r.embeddingWarnings) = 2
    /\ r.embeddingWarnings[1].batch = 2
    /\ r.embeddingWarnings[2].batch = 4

\* the vector the i-th record must carry: the provider's embedding of the
\* i-th text, or the zero vector when the sub-batch the text was in failed
ExpectedValues(r, i) ==
  IF BatchWarning(i - 1, FallbackBatchSize(TextsOf(r))) \in SeqRange(r.embeddingWarnings)
  THEN ZeroVector(r.dimensions)
  ELSE ProviderEmbed(<<r.chunks[i].text>>, r.dimensions)[1]

\* C8: chunk order is preserved end to end: the i-th vector record carries
\* the i-th chunk's text and chunk id, the embedding of the i-th text (or
\* its zero-vector substitute) and the id suffix i.
C8_OrderPreserved ==
  \A j \in 1..Len(runs) :
    LET r == runs[j] IN
    (r.pc = "upsert" \/ (r.pc = "done" /\ r.response.code = "OK")) =>
      /\ Len(r.vectors) = Len(r.chunks)
      /\ \A i \in 1..Len(r.vectors) :
           /\ r.vectors[i].text = r.chunks[i].text
           /\ r.vectors[i].chunk_id = r.chunks[i].id
           /\ r.vectors[i].chunk_id = i - 1
           /\ r.vectors[i].id[2] = i - 1
           /\ r.vectors[i].values = ExpectedValues(r, i)

C8_Witness ==
  \E j \in 1..Len(runs) :
    LET r == runs[j] IN
    /\ r.pc = "done"
    /\ r.response.status = 200
    /\ Len(r.vectors) > MaxRetries
    /\ r.vectors[1].values = ZeroVector(r.dimensions)
    /\ r.vectors[Len(r.vectors)].values # ZeroVector(r.dimensions)
    /\ \A v \in SeqRange(r.vectors) : Stored(v) \in store

\* C9: when forceUpload is false and checkDuplicateFile returns a record
\* with the same content hash, the run answers DUPLICATE_FILE with the
\* filename and upload timestamp of a stored record that has the hash, and
\* stops: it makes no extraction, embedding or upsert call and writes
\* nothing.
C9_DuplicateShortCircuit ==
  \A j \in 1..Len(runs) :
    LET r == runs[j] IN
    r.response.code = "DUPLICATE_FILE" =>
      /\ r.pc = "done"
      /\ ~r.forceUpload
      /\ r.parseCalls = 0 /\ r.embedCalls = 0 /\ r.upsertCalls = 0
      /\ r.written = 0 /\ r.vectors = <<>>
      /\ \E v \in store :
           /\ v.file_hash = FileHash(r.file)
           /\ v.filename = r.response.existingFile.filename
           /\ v.uploaded_at = r.response.existingFile.uploaded_at

C9_Witness ==
  \E j \in 1..Len(runs) :
    LET r == runs[j] IN
    /\ r.response.code = "DUPLICATE_FILE"
    /\ r.response.existingFile.filename # r.filename
    /\ r.response.existingFile.uploaded_at < r.uploadedAt
    /\ r.response.existingFile.vectors_count > 1

\* C10: after a completed ingestion of a file, a request that ingests the
\* same file again without forceUpload is rejected as a duplicate and
\* writes no vector.
C10_SecondIngestRejected ==
  \A j \in 1..Len(runs) :
    LET r == runs[j]
        again == \E h \in SeqRange(history) : h.file = r.file /\ h.status = 200
    IN  (r.pc = "done" /\ ~r.forceUpload /\ again) =>
          (r.response.code = "DUPLICATE_FILE" /\ r.written = 0)

\* the ids of the records in the store
StoreIds == {v.id : v \in store}

\* the records of a run that upsertVectors has not yet sent to the store
Unwritten(r) ==
  {r.vectors[k] : k \in (r.batchesDone * UpsertBatchSize + 1)..Len(r.vectors)}

\* C11: a run with forceUpload = true never calls checkDuplicateFile and is
\* never answered DUPLICATE_FILE; it ends either with success or with an
\* error raised by an upsert call, so it always gets as far as the upsert;
\* the ids of its records are pairwise distinct and none of the records it
\* is about to write has the id of a record already in the store.
C11_ForceOverride ==
  \A j \in 1..Len(runs) :
    LET r == runs[j] IN
    r.forceUpload =>
      /\ r.dupCalls = 0
      /\ r.response.code # "DUPLICATE_FILE"
      /\ (r.pc = "done" =>
            (r.response.code = "OK" \/ r.upsertCalls > r.batchesDone))
      /\ (r.pc = "upsert" =>
            /\ \A v \in Unwritten(r) : v.id \notin StoreIds
            /\ \A a, b \in 1..Len(r.vectors) :
                 r.vectors[a].id = r.vectors[b].id => a = b)

C11_Witness ==
  \E j \in 1..Len(runs) :
    LET r == runs[j] IN
    /\ r.forceUpload
    /\ r.pc = "done"
    /\ r.response.code = "OK"
    /\ r.written > 1
    /\ \E h \in SeqRange(history) :
         h.file = r.file /\ h.route = "blob" /\ h.status = 200 /\ h.written = r.written
    /\ Cardinality(store) = 2 * r.written

\* C12: a request whose file name has an extension other than pdf, docx,
\* doc, csv makes no embedding call, writes no vector and, once answered,
\* has been answered with the unsupported-format error.
C12_UnsupportedIsHardFailure ==
  \A j \in 1..Len(runs) :
    LET r == runs[j] IN
    ~Supported(r.filename) =>
      /\ r.embedCalls = 0
      /\ r.upsertCalls = 0
      /\ r.written = 0
      /\ (r.pc = "done" =>
            (r.response.status = 500 /\ r.response.error = "Unsupported file type"))

\* C13: for a file name with a supported extension, parseFile is called
\* once and, when it throws, parsePDF is called at most once more and only
\* for a pdf; no run is answered from the extraction step: once extraction
\* is over the run has a parsed document and goes on to chunking; a document
\* that is the placeholder made after a throw has pageCount 1 and comes
\* with at least one warning.
C13_ExtractionNeverAborts ==
  \A j \in 1..Len(runs) :
    LET r == runs[j] IN
    Supported(r.filename) =>
      /\ r.parseCalls <= 2
      /\ (r.parseCalls = 2 => IsPdf(r.filename))
      /\ ((r.parseCalls > 0 /\ r.pc \notin {"parse", "fallback-parse"}) =>
            r.parsed # "none")
      /\ (r.pc = "done" /\ r.parseCalls > 0 => r.chunks = ChunksOf(r))
      /\ (r.parsed = "placeholder" =>
            (r.pageCount = 1 /\ Len(r.parseWarnings) >= 1))

\* C14: a run whose first full-batch embedding attempt failed for a
\* credential or configuration reason makes no further embedding call,
\* never enters the sub-batch loop, builds and writes no vector, and is
\* answered with an error.
C14_FailFastOnConfigError ==
  \A j \in 1..Len(runs) :
    LET r == runs[j] IN
    r.firstError = "config" =>
      /\ r.embedCalls = 1
      /\ r.pc \notin {"subbatch", "vectors", "upsert"}
      /\ r.upsertCalls = 0
      /\ r.written = 0
      /\ (r.pc = "done" => r.response.code = "ERROR")

\* the number of sub-batches the fallback loop makes of n texts
SubBatchCount(n) ==
  (n + FallbackBatchSize([k \in 1..n |-> 0]) - 1) \div FallbackBatchSize([k \in 1..n |-> 0])

\* the positions (from 1) of the texts of sub-batch b (from 1) of n texts
SubBatchPositions(n, b) ==
  LET size == FallbackBatchSize([k \in 1..n |-> 0])
  IN  {p \in 1..n : (p - 1) \div size = b - 1}

\* the warnings that name sub-batch b
WarningsNaming(r, b) ==
  {k \in 1..Len(r.embeddingWarnings) : r.embeddingWarnings[k].batch = b}

\* C15: once the sub-batch loop of a run is over, every sub-batch is of one
\* of two kinds: all its texts have the provider's embedding and no warning
\* names it, or all its texts have the zero vector of length dimensions and
\* exactly one warning names it; there is no other warning; and the run
\* is not answered with an error unless an upsert call failed.
C15_SubBatchZeroFill ==
  \A j \in 1..Len(runs) :
    LET r == runs[j]
        n == Len(r.chunks)
    IN  (r.retryCount = MaxRetries /\ r.pc \in {"vectors", "upsert", "done"}) =>
          /\ Len(r.embeddings) = n
          /\ \A b \in 1..SubBatchCount(n) :
               \/ /\ \A p \in SubBatchPositions(n, b) :
                       r.embeddings[p] = ProviderEmbed(<<r.chunks[p].text>>, r.dimensions)[1]
                  /\ WarningsNaming(r, b) = {}
               \/ /\ \A p \in SubBatchPositions(n, b) :
                       r.embeddings[p] = ZeroVector(r.dimensions)
                  /\ Cardinality(WarningsNaming(r, b)) = 1
          /\ \A k \in 1..Len(r.embeddingWarnings) :
               r.embeddingWarnings[k].batch \in 1..SubBatchCount(n)
          /\ (r.pc = "done" =>
                (r.response.code = "OK" \/ r.upsertCalls > r.batchesDone))
          /\ ((r.pc = "done" /\ r.response.code = "OK") =>
                /\ r.written = n
                /\ SubSeq(r.response.warnings, Len(r.parseWarnings) + 1,
                          Len(r.response.warnings)) = r.embeddingWarnings)

\* the provider failed all three attempts and then one of the sub-batches,
\* not the first and not the last; the run has been answered with success
C15_Witness ==
  \E j \in 1..Len(runs) :
    LET r == runs[j] IN
    /\ r.retryCount = MaxRetries
    /\ r.pc = "done"
    /\ r.response.code = "OK"
    /\ Len(r.chunks) > MaxRetries
    /\ Len(r.embeddingWarnings) = 1
    /\ r.embeddingWarnings[1].batch = 2
    /\ r.vectors[1].values # ZeroVector(r.dimensions)
    /\ r.vectors[3].values = ZeroVector(r.dimensions)
    /\ r.vectors[4].values = ZeroVector(r.dimensions)
    /\ r.vectors[5].values # ZeroVector(r.dimensions)

\* the run was answered with the error of a failed upsert call
UpsertFailed(r) ==
  r.pc = "done" /\ r.response.code = "ERROR" /\ r.upsertCalls > r.batchesDone

\* C16: when the upsert of a batch has failed, the records of the batches
\* upserted before it are in the store, and the error response tells how
\* many batches were upserted.
C16_PartialUpsertReported ==
  \A j \in 1..Len(runs) :
    LET r == runs[j] IN
    UpsertFailed(r) =>
      /\ \A k \in 1..(r.batchesDone * UpsertBatchSize) : Stored(r.vectors[k]) \in store
      /\ r.written = r.batchesDone * UpsertBatchSize
      /\ "batchesSucceeded" \in DOMAIN r.response
      /\ r.response.batchesSucceeded = r.batchesDone

\* the stage of the pipeline a run is in
Stage(pc) ==
  CASE pc \in {"hashed", "dupcheck"} -> 1
    [] pc \in {"parse", "fallback-parse"} -> 2
    [] pc = "chunk" -> 3
    [] pc \in {"embed", "subbatch", "vectors"} -> 4
    [] pc = "upsert" -> 5
    [] pc = "done" -> 6

\* one step of the routes: a run never moves to an earlier stage, and the
\* store changes only by a run that is in the upsert stage and has one
\* embedding of length dimensions per chunk
StageStep ==
  /\ \A j \in 1..Len(runs), k \in 1..Len(runs') :
       runs[j].uploadedAt = runs'[k].uploadedAt =>
         Stage(runs'[k].pc) >= Stage(runs[j].pc)
  /\ store' # store =>
       \E j \in 1..Len(runs) :
         /\ runs[j].pc = "upsert"
         /\ HasShape(runs[j].embeddings, Len(runs[j].chunks), runs[j].dimensions)
         /\ Len(runs[j].vectors) = Len(runs[j].chunks)
         /\ store' \ store \subseteq {Stored(v) : v \in SeqRange(runs[j].vectors)}

\* a run that has not reached the upsert stage has called no upsert and
\* has written nothing
NoWriteBeforeUpsert ==
  \A j \in 1..Len(runs) :
    Stage(runs[j].pc) < 5 =>
      /\ runs[j].upsertCalls = 0
      /\ runs[j].written = 0
      /\ \A v \in store : v.uploaded_at # runs[j].uploadedAt

\* C17: the stages of a run occur in the order hash and duplicate check,
\* extraction, chunking, embedding, upsert, none entered again after a
\* later one; nothing is written to the store before the embedding stage
\* has produced a vector for every chunk, and a run that stops before the
\* upsert stage has left the store as it was.
C17_StageOrder == []NoWriteBeforeUpsert /\ [][StageStep]_vars

C17_Witness ==
  \E j \in 1..Len(runs) :
    LET r == runs[j] IN
    /\ r.pc = "done"
    /\ r.response.code = "OK"
    /\ r.dupCalls = 1
    /\ r.parseCalls = 2
    /\ r.retryCount = MaxRetries
    /\ r.written > 1
    /\ Cardinality(store) = r.written

(***************************************************************************)
(* PDFParserService.enhanceTableText and formatTable.  Lines, rows and     *)
(* cells are sequences of characters.                                      *)
(***************************************************************************)
\* String.prototype.split(c) for a one-character separator
RECURSIVE SplitChar(_, _)
SplitChar(s, c) ==
  IF \E p \in 1..Len(s) : s[p] = c
  THEN LET p == SetMin({q \in 1..Len(s) : s[q] = c})
       IN  <<SubSeq(s, 1, p - 1)>> \o SplitChar(SubSeq(s, p + 1, Len(s)), c)
  ELSE <<s>>

\* String.prototype.split(/\s{2,}/): the separators are the maximal runs of
\* two or more whitespace characters
RECURSIVE SplitWide(_)
SplitWide(s) ==
  LET starts == {p \in 1..(Len(s) - 1) : IsWhitespace(s[p]) /\ IsWhitespace(s[p + 1])}
  IN  IF starts = {}
      THEN <<s>>
      ELSE LET p == SetMin(starts)
               after == {q \in (p + 2)..Len(s) : ~IsWhitespace(s[q])}
               e == IF after = {} THEN Len(s) + 1 ELSE SetMin(after)
           IN  <<SubSeq(s, 1, p - 1)>> \o SplitWide(SubSeq(s, e, Len(s)))

\* Array.prototype.join(sep)
RECURSIVE Join(_, _)
Join(parts, sep) ==
  IF parts = <<>> THEN <<>>
  ELSE IF Len(parts) = 1 THEN parts[1]
  ELSE parts[1] \o sep \o Join(Tail(parts), sep)

\* .filter(col => col.trim())
NonBlank(col) == Trim(col) # <<>>
TrimAll(cols) == [k \in 1..Len(cols) |-> Trim(cols[k])]

\* padEnd(width)
PadEnd(s, width) == IF Len(s) < width THEN s \o Rep(SP, width - Len(s)) ELSE s

MinTabCols == 2
MinSpaceCols == 3
MinSpaceRowLen == 40
MaxColumnWidth == 50
MaxSeparatorWidth == 20
EllipsisLen == 3

TabSeparated(line) == SelectSeq(SplitChar(line, TAB), NonBlank)
SpaceSeparated(line) == SelectSeq(SplitWide(line), NonBlank)
HasTabs(line) == Len(TabSeparated(line)) >= MinTabCols
HasSpaces(line) == Len(SpaceSeparated(line)) >= MinSpaceCols /\ Len(line) > MinSpaceRowLen

\* looksLikeTableRow, and the same test on the next and previous line,
\* which is false for an empty line
LooksLikeTableRow(line) == line # <<>> /\ (HasTabs(line) \/ HasSpaces(line))

\* the normalized row and its column count
RowOf(line) ==
  IF HasTabs(line) THEN Join(TrimAll(TabSeparated(line)), <<TAB>>)
  ELSE Join(TrimAll(SpaceSeparated(line)), <<TAB>>)
ColCount(line) ==
  IF HasTabs(line) THEN Len(TabSeparated(line)) ELSE Len(SpaceSeparated(line))

\* formatTable: the cells of a row, padded when expectedColumns is given
\* (0: the argument was left out)
PadCols(cols, expectedColumns) ==
  IF expectedColumns # 0 /\ Len(cols) < expectedColumns
  THEN cols \o [k \in 1..(expectedColumns - Len(cols)) |-> <<>>]
  ELSE cols

TableData(rows, expectedColumns) ==
  [k \in 1..Len(rows) |-> PadCols(TrimAll(SplitChar(rows[k], TAB)), expectedColumns)]

\* maxWidths[idx] after the rows k.. have been visited, m being its value
\* so far (0: undefined)
RECURSIVE ColWidth(_, _, _, _)
ColWidth(tableData, idx, k, m) ==
  IF k > Len(tableData) THEN m
  ELSE IF idx <= Len(tableData[k])
          /\ (m = 0 \/ Len(tableData[k][idx]) > m)
  THEN ColWidth(tableData, idx, k + 1, Min(Len(tableData[k][idx]), MaxColumnWidth))
  ELSE ColWidth(tableData, idx, k + 1, m)

MaxWidth(tableData, idx) == ColWidth(tableData, idx, 1, 0)

DisplayCol(col, width) ==
  PadEnd(IF Len(col) > width
         THEN Substring(col, 0, width - EllipsisLen) \o <<".", ".", ".">>
         ELSE col, width)

FormattedRow(tableData, row) ==
  Join([c \in 1..Len(row) |-> DisplayCol(row[c], MaxWidth(tableData, c))],
       <<SP, "|", SP>>)

SeparatorRow(tableData, row) ==
  Join([c \in 1..Len(row) |-> Rep("-", Min(MaxWidth(tableData, c), MaxSeparatorWidth))],
       <<"-", "|", "-">>)

FormatTable(rows, expectedColumns) ==
  LET tableData == TableData(rows, expectedColumns)
      body == [k \in 1..Len(rows) |-> FormattedRow(tableData, tableData[k])]
  IN  IF rows = <<>> THEN <<>>
      ELSE IF Len(rows) > 1
      THEN <<body[1], SeparatorRow(tableData, tableData[1])>> \o Tail(body)
      ELSE body

\* the block a finished run of rows becomes, as history
TableBlock(rows, formatted, ended) ==
  [rows |-> rows, formatted |-> formatted, ended |-> ended]

CurLine == Trim(lines[lineI + 1])
NextLine == IF lineI < Len(lines) - 1 THEN Trim(lines[lineI + 2]) ELSE <<>>
PrevLine == IF lineI > 0 THEN Trim(lines[lineI]) ELSE <<>>

\* const lines = text.split('\n') and the initial values of the locals
EnhanceTableText ==
  /\ ppc = "call"
  /\ lines' = SplitChar(pdfText, NL)
  /\ lineI' = 0
  /\ inTable' = FALSE
  /\ tableRows' = <<>>
  /\ tableColumnCount' = 0
  /\ enhancedLines' = <<>>
  /\ ppc' = "loop"
  /\ UNCHANGED <<pdfText, tables, chunkVars, ingestVars, clientVars>>

\* an iteration on an empty line: if (!line)
TableBlankLine ==
  /\ ppc = "loop"
  /\ lineI < Len(lines)
  /\ CurLine = <<>>
  /\ IF inTable /\ Len(tableRows) > 0
     THEN /\ enhancedLines' = enhancedLines \o FormatTable(tableRows, 0) \o << <<>> >>
          /\ tables' = Append(tables, TableBlock(tableRows, FormatTable(tableRows, 0), "blank"))
          /\ tableRows' = <<>>
          /\ inTable' = FALSE
          /\ tableColumnCount' = 0
     ELSE /\ enhancedLines' = Append(enhancedLines, <<>>)
          /\ UNCHANGED <<tables, tableRows, inTable, tableColumnCount>>
  /\ lineI' = lineI + 1
  /\ UNCHANGED <<pdfText, lines, ppc, chunkVars, ingestVars, clientVars>>

\* an iteration on a line taken as a table row
TableRowLine ==
  /\ ppc = "loop"
  /\ lineI < Len(lines)
  /\ CurLine # <<>>
  /\ LooksLikeTableRow(CurLine)
  /\ LooksLikeTableRow(NextLine) \/ LooksLikeTableRow(PrevLine) \/ inTable
  /\ inTable' = TRUE
  /\ tableColumnCount' = Max(tableColumnCount, ColCount(CurLine))
  /\ tableRows' = Append(tableRows, RowOf(CurLine))
  /\ lineI' = lineI + 1
  /\ UNCHANGED <<pdfText, lines, enhancedLines, tables, ppc,
                 chunkVars, ingestVars, clientVars>>

\* an iteration on any other line
TableTextLine ==
  /\ ppc = "loop"
  /\ lineI < Len(lines)
  /\ CurLine # <<>>
  /\ ~(/\ LooksLikeTableRow(CurLine)
       /\ LooksLikeTableRow(NextLine) \/ LooksLikeTableRow(PrevLine) \/ inTable)
  /\ IF inTable /\ Len(tableRows) > 0
     THEN /\ enhancedLines' = enhancedLines \o FormatTable(tableRows, tableColumnCount)
                                \o <<CurLine>>
          /\ tables' = Append(tables, TableBlock(tableRows,
                                FormatTable(tableRows, tableColumnCount), "text"))
          /\ tableRows' = <<>>
          /\ inTable' = FALSE
          /\ tableColumnCount' = 0
     ELSE /\ enhancedLines' = Append(enhancedLines, CurLine)
          /\ UNCHANGED <<tables, tableRows, inTable, tableColumnCount>>
  /\ lineI' = lineI + 1
  /\ UNCHANGED <<pdfText, lines, ppc, chunkVars, ingestVars, clientVars>>

\* after the loop: the table at the end of the document, and the return
TableEnd ==
  /\ ppc = "loop"
  /\ lineI = Len(lines)
  /\ IF inTable /\ Len(tableRows) > 0
     THEN /\ enhancedLines' = enhancedLines \o FormatTable(tableRows, tableColumnCount)
          /\ tables' = Append(tables, TableBlock(tableRows,
                                FormatTable(tableRows, tableColumnCount), "eof"))
     ELSE UNCHANGED <<enhancedLines, tables>>
  /\ ppc' = "done"
  /\ UNCHANGED <<pdfText, lines, lineI, inTable, tableRows, tableColumnCount,
                 chunkVars, ingestVars, clientVars>>

\* the lines the extracted text is made of: empty, plain words, rows of two
\* and three tab-separated cells (one with an empty cell between two tabs),
\* a row of three cells separated by two spaces that is longer than 40
\* characters, and a short line with the same separators
WideCell == 38
MaxDocLines == 4
TableLineKinds ==
  { <<>>,
    <<"x">>,
    <<"x", TAB, "x">>,
    <<"x", TAB, "x", TAB, "x">>,
    <<"x", TAB, TAB, "x", SP>>,
    Rep("x", WideCell) \o <<SP, SP, "x", SP, SP, "x">>,
    <<"x", SP, SP, "x", SP, SP, "x">> }

PdfTexts ==
  {Join(d, <<NL>>) : d \in UNION {[1..n -> TableLineKinds] : n \in 1..MaxDocLines}}

InitTable ==
  /\ pdfText \in PdfTexts
  /\ lines = <<>>
  /\ lineI = 0
  /\ inTable = FALSE
  /\ tableRows = <<>>
  /\ tableColumnCount = 0
  /\ enhancedLines = <<>>
  /\ tables = <<>>
  /\ ppc = "call"
  /\ ClientIdle
  /\ runs = IdleRuns
  /\ history = <<>>
  /\ store = {}
  /\ idCounter = 0
  /\ clock = 0
  /\ text = <<>>
  /\ chunkSize = DefaultChunkSize
  /\ overlap = DefaultOverlap
  /\ useHeadings = FALSE
  /\ cpc = "idle"
  /\ startIndex = 0
  /\ chunks = <<>>
  /\ iters = 0
  /\ headingIndices = <<>>
  /\ secI = 0
  /\ result = <<>>
  /\ discarded = {}
  /\ lastStep = [kind |-> "none", from |-> 0, to |-> 0]

NextTable ==
  \/ EnhanceTableText
  \/ TableBlankLine
  \/ TableRowLine
  \/ TableTextLine
  \/ TableEnd

SpecTable == InitTable /\ [][NextTable]_vars

\* the number of columns of a formatted line: its cells are joined by
\* " | " (by "-|-" in the separator line) and hold no "|" themselves
Columns(line) == Cardinality({p \in 1..Len(line) : line[p] = "|"}) + 1

\* the greatest number of cells among the rows of a block
MaxCols(rows) == SetMax({Len(SplitChar(rows[k], TAB)) : k \in 1..Len(rows)})

\* C18: every line of every table block has as many columns as the widest
\* row of the block, whether the run of rows was ended by an empty line, by
\* a line that is no row, or by the end of the document.
C18_TablePadded ==
  \A b \in 1..Len(tables) :
    \A k \in 1..Len(tables[b].formatted) :
      Columns(tables[b].formatted[k]) = MaxCols(tables[b].rows)

\* C19: a run of /api/ingest-from-blob whose file has no extractable
\* character gets the placeholder text and a warning and, unless an upsert
\* call fails, is answered with success and chunksCreated 0; and every
\* run whose chunk list is empty is answered with success, chunksCreated,
\* vectorsUpserted and batches all 0, having sent no request to the
\* embedding provider and made no upsert call.
C19_ZeroChunkRun ==
  \A j \in 1..Len(runs) :
    LET r == runs[j] IN
    /\ (r.parsed = "empty-placeholder" /\ r.pc = "done" /\ ~UpsertFailed(r)) =>
         /\ Len(r.parseWarnings) >= 1
         /\ r.response.code = "OK"
         /\ r.response.chunksCreated = 0
    /\ (r.parsed # "none" /\ r.pc = "done" /\ r.chunks = <<>>) =>
         /\ r.response.code = "OK"
         /\ r.response.chunksCreated = 0
         /\ r.response.vectorsUpserted = 0
         /\ r.response.batches = 0
         /\ r.providerCalls = 0
         /\ r.upsertCalls = 0
         /\ r.written = 0

(***************************************************************************)
(* MultiFileIngestionControls.handleIngestion.  A file of the list has a   *)
(* name, is larger than the 4 MB limit or not, and has its topic and       *)
(* source filled in or not.  hpc:                                          *)
(*   "idle"       the button has not been pressed                          *)
(*   "rejected"   handleIngestion returned after an alert                  *)
(*   "loop"       at the head of the for loop                              *)
(*   "uploading"  awaiting fetch('/api/upload-blob')                       *)
(*   "ingesting"  awaiting fetch of /api/ingest or /api/ingest-from-blob   *)
(*   "done"       handleIngestion returned after the loop                  *)
(***************************************************************************)
MaxFiles == 3

FileEntries == [name : FileNames, large : BOOLEAN, hasMeta : BOOLEAN]
FileLists == UNION {[1..n -> FileEntries] : n \in 0..MaxFiles}

\* what awaiting the ingestion fetch and reading its body can come to: a
\* 200 with stats, the 409 of a duplicate, another JSON error, a body that
\* is not JSON, or a rejected fetch
IngestOutcomes == {"ok", "duplicate", "error-json", "non-json", "network"}
UploadOutcomes == {"ok", "upload-not-ok", "network"}

SuccessResult(file) ==
  [filename |-> file.name, success |-> TRUE, message |-> "Ingested successfully"]
FailureResult(file, error) ==
  [filename |-> file.name, success |-> FALSE, message |-> "Failed", error |-> error]

\* the catch block ending the loop after the first failure
NextFileAfterFailureStop(i, n) == n

\* the index the for loop goes on with after the catch block of file i
NextFileAfterFailure(i, n) == i + 1

CountWhere(rs, wanted) == Cardinality({k \in 1..Len(rs) : rs[k].success = wanted})

\* the button is pressed: the guards at the top of handleIngestion
StartIngestion ==
  /\ hpc = "idle"
  /\ ~loading
  /\ IF files = <<>> \/ \E k \in 1..Len(files) : ~files[k].hasMeta
     THEN /\ hpc' = "rejected"
          /\ UNCHANGED <<loading, results, fileI, allResults>>
     ELSE /\ hpc' = "loop"
          /\ loading' = TRUE
          /\ results' = <<>>
          /\ fileI' = 0
          /\ allResults' = <<>>
  /\ UNCHANGED <<files, summary, chunkVars, ingestVars, parserVars>>

\* the head of an iteration: the size of the file decides the route
FileStart ==
  /\ hpc = "loop"
  /\ fileI < Len(files)
  /\ hpc' = IF files[fileI + 1].large THEN "uploading" ELSE "ingesting"
  /\ UNCHANGED <<files, fileI, loading, allResults, results, summary,
                 chunkVars, ingestVars, parserVars>>

\* the upload to blob storage comes back
UploadBlob ==
  /\ hpc = "uploading"
  /\ \E outcome \in UploadOutcomes :
       IF outcome = "ok"
       THEN /\ hpc' = "ingesting"
            /\ UNCHANGED <<fileI, allResults>>
       ELSE /\ allResults' = Append(allResults, FailureResult(files[fileI + 1], outcome))
            /\ fileI' = NextFileAfterFailure(fileI, Len(files))
            /\ hpc' = "loop"
  /\ UNCHANGED <<files, loading, results, summary, chunkVars, ingestVars, parserVars>>

\* the ingestion request comes back with a success
IngestSucceeds ==
  /\ hpc = "ingesting"
  /\ allResults' = Append(allResults, SuccessResult(files[fileI + 1]))
  /\ fileI' = fileI + 1
  /\ hpc' = "loop"
  /\ UNCHANGED <<files, loading, results, summary, chunkVars, ingestVars, parserVars>>

\* the ingestion request fails in one of the ways the try block throws for
IngestFails ==
  /\ hpc = "ingesting"
  /\ \E outcome \in IngestOutcomes \ {"ok"} :
       allResults' = Append(allResults, FailureResult(files[fileI + 1], outcome))
  /\ fileI' = NextFileAfterFailure(fileI, Len(files))
  /\ hpc' = "loop"
  /\ UNCHANGED <<files, loading, results, summary, chunkVars, ingestVars, parserVars>>

\* after the loop: setResults, the summary, and finally setLoading(false)
FinishIngestion ==
  /\ hpc = "loop"
  /\ fileI >= Len(files)
  /\ results' = allResults
  /\ summary' = [successCount |-> CountWhere(allResults, TRUE),
                 failCount |-> CountWhere(allResults, FALSE),
                 total |-> Len(files)]
  /\ loading' = FALSE
  /\ hpc' = "done"
  /\ UNCHANGED <<files, fileI, allResults, chunkVars, ingestVars, parserVars>>

InitMulti ==
  /\ files \in FileLists
  /\ fileI = 0
  /\ hpc = "idle"
  /\ loading = FALSE
  /\ allResults = <<>>
  /\ results = <<>>
  /\ summary = [successCount |-> 0, failCount |-> 0, total |-> 0]
  /\ ParserIdle
  /\ runs = IdleRuns
  /\ history = <<>>
  /\ store = {}
  /\ idCounter = 0
  /\ clock = 0
  /\ text = <<>>
  /\ chunkSize = DefaultChunkSize
  /\ overlap = DefaultOverlap
  /\ useHeadings = FALSE
  /\ cpc = "idle"
  /\ startIndex = 0
  /\ chunks = <<>>
  /\ iters = 0
  /\ headingIndices = <<>>
  /\ secI = 0
  /\ result = <<>>
  /\ discarded = {}
  /\ lastStep = [kind |-> "none", from |-> 0, to |-> 0]

NextMulti ==
  \/ StartIngestion
  \/ FileStart
  \/ UploadBlob
  \/ IngestSucceeds
  \/ IngestFails
  \/ FinishIngestion

SpecMulti == InitMulti /\ [][NextMulti]_vars

\* the first n results are those of the first n files, in list order
ResultsMatch(rs, n) ==
  /\ Len(rs) = n
  /\ \A k \in 1..n : rs[k].filename = files[k].name

\* C20: while the loop runs there is exactly one result for each file
\* already handled, in list order, whatever failed, and the loop is left
\* only after the last file; when handleIngestion has returned, the
\* results are one per file in list order and the successes and failures
\* of the summary add up to the number of files.
C20_MultiFileResilient ==
  /\ hpc \in {"loop", "uploading", "ingesting"} =>
       (fileI <= Len(files) /\ ResultsMatch(allResults, fileI))
  /\ hpc \in {"uploading", "ingesting"} => fileI < Len(files)
  /\ hpc = "done" =>
       /\ ResultsMatch(results, Len(files))
       /\ summary.successCount + summary.failCount = Len(files)
       /\ summary.total = Len(files)
       /\ summary.successCount = CountWhere(results, TRUE)

\* three files; the first was rejected as a duplicate, the second failed
\* in the upload to blob storage, the third was ingested
C20_Witness ==
  /\ hpc = "done"
  /\ Len(files) = MaxFiles
  /\ ~results[1].success /\ results[1].error = "duplicate"
  /\ ~results[2].success /\ results[2].error = "upload-not-ok"
  /\ results[Len(results)].success
  /\ summary.successCount = 1

(***************************************************************************)
(* The boundary tiers of chunkSimple                                       *)
(***************************************************************************)
\* The four boundaries of the window [start, candidate) in priority order:
\* where the boundary was found in the window (-1 when absent), the tenths
\* of chunkSize its position has to exceed, and the end it stands for.
Tiers(t, start, size) ==
  LET window == Substring(t, start, Min(start + size, Len(t)))
      paragraph == LastIndexOfParagraph(window)
      sentence == LastSentenceEnd(window)
      newline == LastIndexOf(window, NL)
      space == LastIndexOf(window, SP)
  IN  << [pos |-> paragraph, tenths |-> 6, end |-> start + paragraph + 2],
         [pos |-> sentence, tenths |-> 5, end |-> start + sentence],
         [pos |-> newline, tenths |-> 5, end |-> start + newline + 1],
         [pos |-> space, tenths |-> 7, end |-> start + space + 1] >>

Qualifying(t, start, size) ==
  {k \in 1..4 : Exceeds(Tiers(t, start, size)[k].pos, size,
                        Tiers(t, start, size)[k].tenths)}

IsTail(t, start, size) == Min(start + size, Len(t)) = Len(t)

TierEnd(t, start, size) ==
  IF IsTail(t, start, size) \/ Qualifying(t, start, size) = {}
  THEN Min(start + size, Len(t))
  ELSE Tiers(t, start, size)[SetMin(Qualifying(t, start, size))].end

\* C21: every iteration of chunkSimple ends its slice at the end given by
\* the first boundary tier that meets its threshold (paragraph break beyond
\* 0.6 chunkSize, end of the last sentence terminator beyond 0.5 chunkSize,
\* last newline beyond 0.5 chunkSize, last space beyond 0.7 chunkSize), at
\* the raw candidate end min(start + chunkSize, len) when no tier
\* qualifies, and at the candidate end without any search for the tail
\* window.
C21_FirstQualifyingTier ==
  [][iters' = iters + 1 =>
       /\ lastStep'.from = startIndex
       /\ lastStep'.to = TierEnd(CurText, startIndex, chunkSize)]_vars

\* an iteration of simple mode has just cut a non-tail window at a boundary
\* although a lower tier also qualified and stood for another end
C21_Witness ==
  /\ cpc = "simple"
  /\ lastStep.kind = "emit"
  /\ ~IsTail(text, lastStep.from, chunkSize)
  /\ \E hi \in Qualifying(text, lastStep.from, chunkSize) :
       /\ lastStep.to = Tiers(text, lastStep.from, chunkSize)[hi].end
       /\ \E lo \in Qualifying(text, lastStep.from, chunkSize) :
            /\ lo > hi
            /\ Tiers(text, lastStep.from, chunkSize)[lo].end # lastStep.to

(***************************************************************************)
(* The embedding retry ladder of /api/ingest-from-blob                     *)
(***************************************************************************)
InEmbedding(r) == r.pc \in {"embed", "subbatch"}

FullCalls(log) == SelectSeq(log, LAMBDA c : c.kind = "full")
SubCalls(log) == SelectSeq(log, LAMBDA c : c.kind = "sub")

\* the full batch was tried at most 3 times, nothing was tried after a
\* successful full-batch call, and sub-batches were tried only after
\* exactly 3 failed full-batch calls, each once, in input order
LadderBounded(r) ==
  LET log == r.embedLog
      full == FullCalls(log)
      sub == SubCalls(log)
      b == FallbackBatchSize(TextsOf(r))
  IN  /\ Len(full) <= MaxRetries
      /\ log = full \o sub
      /\ \A k \in 1..Len(full) : full[k].ok => k = Len(log)
      /\ sub # <<>> =>
           /\ Len(full) = MaxRetries
           /\ \A k \in 1..Len(full) : ~full[k].ok
      /\ \A k \in 1..Len(sub) :
           /\ sub[k].from = (k - 1) * b
           /\ sub[k].from < Len(r.chunks)
      /\ (r.pc = "embed") => \A k \in 1..Len(full) : ~full[k].ok
      /\ (r.pc = "subbatch") =>
           /\ Len(full) = MaxRetries
           /\ Len(sub) * b < Len(r.chunks)
      /\ (Len(log) > 0 /\ ~InEmbedding(r)) =>
           \/ full[Len(full)].ok /\ sub = <<>>
           \/ Len(full) = MaxRetries /\ Len(sub) = SubBatchCount(Len(r.chunks))

\* C22: the embedding retry ladder of /api/ingest-from-blob is bounded: the
\* full batch is attempted at most 3 times and never after a success; the
\* sub-batch fallback runs only after exactly 3 failed full-batch
\* attempts, trying each sub-batch exactly once in input order; and a run
\* that is in the embedding stage always leaves it, whatever the outcomes
\* of the provider calls.
C22_LadderBoundedAndTerminates ==
  /\ [](\A j \in 1..Len(runs) : runs[j].route = "blob" => LadderBounded(runs[j]))
  /\ (\E j \in 1..Len(runs) : InEmbedding(runs[j]))
       ~> (\A j \in 1..Len(runs) : ~InEmbedding(runs[j]))

\* a run has left the embedding stage after 3 failed full-batch attempts
\* and a sub-batch loop over 101 texts in which sub-batches failed
C22_Witness ==
  \E j \in 1..Len(runs) :
    /\ runs[j].route = "blob"
    /\ runs[j].pc = "vectors"
    /\ Len(runs[j].chunks) = LongFileChunks
    /\ Len(FullCalls(runs[j].embedLog)) = MaxRetries
    /\ Len(SubCalls(runs[j].embedLog)) = 4
    /\ \E k \in 1..Len(runs[j].embedLog) :
         runs[j].embedLog[k].kind = "sub" /\ ~runs[j].embedLog[k].ok

(***************************************************************************)
(* The cursor of chunkSimple                                               *)
(***************************************************************************)
\* the source characters two chunks have in common
Shared(a, b) ==
  Max(0, Min(a.endIndex, b.endIndex) - Max(a.startIndex, b.startIndex))

SharedAtMostOverlap(cs) ==
  \A j \in 1..(Len(cs) - 1) : Shared(cs[j], cs[j + 1]) <= overlap

\* what one iteration did to the cursor: it emitted the slice [s, e) and
\* moved to e - overlap, or to e when e - overlap is not beyond s; or it
\* dropped the slice and moved to e
CursorStep ==
  iters' = iters + 1 =>
    LET s == startIndex
        e == lastStep'.to
    IN  IF Len(chunks') = Len(chunks) + 1
        THEN /\ chunks'[Len(chunks')].startIndex = s
             /\ chunks'[Len(chunks')].endIndex = e
             /\ startIndex' = IF e - overlap > s THEN e - overlap ELSE e
        ELSE /\ chunks' = chunks
             /\ Len(ChunkTextFinal(CurText, s, e)) <= MinChunkLen
             /\ startIndex' = e

\* C23: after emitting a chunk [s, e) the cursor of chunkSimple moves to
\* e - overlap when that is strictly greater than s and to e otherwise;
\* after dropping a slice that ends at e it moves to e; and two chunks
\* emitted one after the other never share more than overlap characters of
\* the source.
C23_CursorAdvance ==
  /\ [][CursorStep]_vars
  /\ [](SharedAtMostOverlap(chunks) /\ SharedAtMostOverlap(result))

\* a finished call of simple mode in which a slice was dropped and one
\* chunk was followed by a chunk sharing exactly overlap characters with it
C23_Witness ==
  /\ cpc = "done"
  /\ ~useHeadings
  /\ overlap > 0
  /\ discarded # {}
  /\ \E j \in 1..(Len(result) - 1) : Shared(result[j], result[j + 1]) = overlap

(***************************************************************************)
(* Offsets and ids of the chunks returned                                  *)
(***************************************************************************)
\* C24: in both modes every chunk chunkText returns (and every chunk of
\* the list it is building), sub-chunks of sections longer than chunkSize
\* included, has as text the trimmed substring of the original text from
\* its startIndex to its endIndex, and the ids are chunk-0, chunk-1, ... in
\* output order without gaps.
C24_OffsetsInOriginalText ==
  \A j \in 1..Len(result) :
    /\ result[j].text =
         Trim(Substring(text, result[j].startIndex, result[j].endIndex))
    /\ result[j].id = j - 1

\* heading mode has returned, and a section that does not start the text
\* was split by chunkSimple into at least two chunks, one of which lost
\* white space to the trim
C24_Witness ==
  /\ cpc = "done"
  /\ useHeadings
  /\ \E i \in 1..Len(headingIndices) :
       /\ HeadingStart(headingIndices, i) > 0
       /\ SectionNeedsSplit(SectionText(text, headingIndices, i), chunkSize)
       /\ \E j \in 1..(Len(result) - 1) :
            /\ result[j].startIndex >= HeadingStart(headingIndices, i)
            /\ result[j + 1].endIndex <= HeadingEnd(text, headingIndices, i)
            /\ Len(result[j].text) < result[j].endIndex - result[j].startIndex

(***************************************************************************)
(* The batches of upsertVectors                                            *)
(***************************************************************************)
CeilDiv(n, d) == (n + d - 1) \div d

\* the ids of records from + 1 .. to of a run, in order
IdsOf(r, from, to) == [k \in 1..(to - from) |-> r.vectors[from + k].id]

\* the k-th upsert call of a run sent records 100 (k - 1) + 1 .. 100 k, cut
\* at the last record, in order, and only the last call made can have failed
UpsertsInOrder(r) ==
  LET n == Len(r.vectors)
      log == r.upsertLog
  IN  /\ Len(log) <= CeilDiv(n, UpsertBatchSize)
      /\ \A k \in 1..Len(log) :
           /\ Len(log[k].ids) <= UpsertBatchSize
           /\ log[k].ids = IdsOf(r, UpsertBatchSize * (k - 1),
                                 Min(UpsertBatchSize * k, n))
           /\ ~log[k].ok => (k = Len(log) /\ r.pc = "done"
                             /\ r.response.code = "ERROR")
      /\ \A k \in 1..Len(r.vectors) :
           (Stored(r.vectors[k]) \in store) <=>
             (\E c \in 1..Len(log) : log[c].ok /\ k <= UpsertBatchSize * c)

\* C25: upsertVectors splits the records in order into consecutive batches
\* of at most 100 and sends them one after the other in that order; after
\* the first batch that fails no batch is sent; and when it succeeds the
\* route reports batches = ceil(n / 100) and vectorsUpserted = n, the
\* number of chunks created.
C25_BatchesInOrder ==
  \A j \in 1..Len(runs) :
    LET r == runs[j] IN
    /\ UpsertsInOrder(r)
    /\ (r.pc = "done" /\ r.response.code = "OK") =>
         /\ Len(r.upsertLog) = CeilDiv(Len(r.vectors), UpsertBatchSize)
         /\ \A k \in 1..Len(r.upsertLog) : r.upsertLog[k].ok
         /\ r.response.batches = CeilDiv(Len(r.vectors), UpsertBatchSize)
         /\ r.response.vectorsUpserted = Len(r.vectors)
         /\ r.response.vectorsUpserted = r.response.chunksCreated

\* a run of 101 records has been answered OK after two upsert calls
C25_Witness ==
  \E j \in 1..Len(runs) :
    /\ runs[j].pc = "done"
    /\ runs[j].response.code = "OK"
    /\ Len(runs[j].vectors) = LongFileChunks
    /\ Len(runs[j].upsertLog) = 2
    /\ Len(runs[j].upsertLog[2].ids) = 1

(***************************************************************************)
(* An upload to /api/ingest-from-blob and its retry: requests one after    *)
(* the other for an empty document or for one long enough for              *)
(* upsertVectors to make two batches.                                      *)
(***************************************************************************)
RetryFiles == {1, 3}

ReceiveRetry ==
  /\ Len(history) + Len(runs) < MaxRequests
  /\ \A j \in 1..Len(runs) : ~InFlight(runs[j])
  /\ \E file \in RetryFiles, force \in BOOLEAN, dims \in Dims :
       runs' = Append(SelectSeq(runs, InFlight),
                      NewRun("blob", file, "a.pdf", force, dims, clock + 1))
  /\ history' = history \o Summaries(SelectSeq(runs, Answered))
  /\ clock' = clock + 1
  /\ UNCHANGED <<store, idCounter, chunkVars, parserVars, clientVars>>

NextRetry ==
  \/ ReceiveRetry
  \/ \E j \in 1..Len(runs) : AfterHash(j)
  \/ \E j \in 1..Len(runs) : DupCheckFound(j)
  \/ \E j \in 1..Len(runs) : DupCheckNone(j)
  \/ \E j \in 1..Len(runs) : DupCheckError(j)
  \/ \E j \in 1..Len(runs) : ParseOk(j)
  \/ \E j \in 1..Len(runs) : ParseEmpty(j)
  \/ \E j \in 1..Len(runs) : ParseThrows(j)
  \/ \E j \in 1..Len(runs) : FallbackParse(j)
  \/ \E j \in 1..Len(runs) : Chunk(j)
  \/ \E j \in 1..Len(runs) : EmbedOk(j)
  \/ \E j \in 1..Len(runs) : EmbedFail(j)
  \/ \E j \in 1..Len(runs) : SubBatchOk(j)
  \/ \E j \in 1..Len(runs) : SubBatchFail(j)
  \/ \E j \in 1..Len(runs) : PrepareVectors(j)
  \/ \E j \in 1..Len(runs) : UpsertBatchOk(j)
  \/ \E j \in 1..Len(runs) : UpsertBatchFail(j)
  \/ \E j \in 1..Len(runs) : UpsertNothing(j)

SpecRetry == InitIngest /\ [][NextRetry]_vars

\* an earlier request for the same file was answered 200
CompletedBefore(r) ==
  \E h \in SeqRange(history) : h.file = r.file /\ h.status = 200

\* an earlier request for the same file failed in upsertVectors after at
\* least one batch had been written
PartWayBefore(r) ==
  \E h \in SeqRange(history) : h.file = r.file /\ h.status = 500 /\ h.written > 0

\* C26: a request without forceUpload is answered DUPLICATE_FILE only if an
\* earlier ingestion of the same file completed its upsert; after an
\* ingestion whose upsert failed part-way the retry is not rejected as a
\* duplicate.
C26_RetryAfterPartialUpsert ==
  \A j \in 1..Len(runs) :
    LET r == runs[j] IN
    (r.pc = "done" /\ ~r.forceUpload /\ r.response.code = "DUPLICATE_FILE")
      => CompletedBefore(r)

(***************************************************************************)
(* Errors inside checkDuplicateFile                                        *)
(***************************************************************************)
\* the run went on to the extraction as a run does whose file is not in
\* the store, and nothing in its answer tells of the failed check
ProceedsUnmarked(r) ==
  /\ r.response.code # "DUPLICATE_FILE"
  /\ r.pc \notin {"hashed", "dupcheck"}
  /\ r.pc # "parse" => r.parseCalls > 0
  /\ r.response.code = "OK" =>
       r.response.warnings = r.parseWarnings \o r.embeddingWarnings

\* C27: when a store request made by checkDuplicateFile raises an error,
\* be it the query by file_hash or one of the stats requests that follow
\* it, the check reports no duplicate and the run proceeds as for a file
\* that was never uploaded, with no error and no warning from the check in
\* its answer.
C27_DuplicateCheckFailsOpen ==
  \A j \in 1..Len(runs) :
    runs[j].dupError # "none" => ProceedsUnmarked(runs[j])

(***************************************************************************)
(* Two calls of /api/ingest-from-blob at the same time.  Each call is its  *)
(* own invocation of the handler; the steps of the two interleave at the   *)
(* awaits, and the store is all they share.                                *)
(***************************************************************************)
MaxConcurrent == 2
ConcurrentFiles == {2}
ConcurrentDims == {SetMin(Dims)}

ReceiveConcurrent ==
  /\ Len(runs) < MaxConcurrent
  /\ \E file \in ConcurrentFiles, dims \in ConcurrentDims :
       runs' = Append(runs, NewRun("blob", file, "a.pdf", FALSE, dims, clock + 1))
  /\ clock' = clock + 1
  /\ UNCHANGED <<history, store, idCounter, chunkVars, parserVars, clientVars>>

NextConcurrent ==
  \/ ReceiveConcurrent
  \/ \E j \in 1..Len(runs) : AfterHash(j)
  \/ \E j \in 1..Len(runs) : DupCheckFound(j)
  \/ \E j \in 1..Len(runs) : DupCheckNone(j)
  \/ \E j \in 1..Len(runs) : DupCheckError(j)
  \/ \E j \in 1..Len(runs) : ParseOk(j)
  \/ \E j \in 1..Len(runs) : ParseEmpty(j)
  \/ \E j \in 1..Len(runs) : ParseThrows(j)
  \/ \E j \in 1..Len(runs) : FallbackParse(j)
  \/ \E j \in 1..Len(runs) : Chunk(j)
  \/ \E j \in 1..Len(runs) : EmbedOk(j)
  \/ \E j \in 1..Len(runs) : EmbedFail(j)
  \/ \E j \in 1..Len(runs) : SubBatchOk(j)
  \/ \E j \in 1..Len(runs) : SubBatchFail(j)
  \/ \E j \in 1..Len(runs) : PrepareVectors(j)
  \/ \E j \in 1..Len(runs) : UpsertBatchOk(j)
  \/ \E j \in 1..Len(runs) : UpsertBatchFail(j)

SpecConcurrent == InitIngest /\ [][NextConcurrent]_vars

\* C28: of two calls for byte-identical content into the same index and
\* namespace, both without forceUpload and both with a duplicate check
\* that raised no error, at most one upserts vectors, however their
\* duplicate checks and upserts interleave.
C28_AtMostOneUpserts ==
  \A i, j \in 1..Len(runs) :
    (/\ i # j
     /\ runs[i].file = runs[j].file
     /\ ~runs[i].forceUpload /\ ~runs[j].forceUpload
     /\ runs[i].dupError = "none" /\ runs[j].dupError = "none")
    => ~(runs[i].written > 0 /\ runs[j].written > 0)

(***************************************************************************)
(* DELETE /api/indexes/{indexName}/files/{filename} and uploads of one     *)
(* document under two names, one request after the other, while the        *)
(* parser, the embedding provider and the store's query and upsert answer  *)
(* without error.                                                          *)
(***************************************************************************)
MaxEvents == 5
DeleteFiles == {2}

\* how the delete requests of deleteFileVectors went: the batch was
\* accepted; the batch was refused and so were the single deletes of the
\* records of chunk 0; the batch request threw; listIndexes threw
DeleteOutcomes == {"all", "part", "none", "throws"}

\* the records the filter { filename: { $eq: filename } } matches
FileVectors(st, filename) == {v \in st : v.filename = filename}

Deleted(st, filename, outcome) ==
  IF outcome = "all" THEN FileVectors(st, filename)
  ELSE IF outcome = "part"
  THEN {v \in FileVectors(st, filename) : v.chunk_id # 0}
  ELSE {}

\* what is remembered of a DELETE request: the file it named, its answer,
\* and how many records of that file it left in the store
DeleteSummary(filename, status, code, deleted, remaining) ==
  [route |-> "delete", file |-> 0, filename |-> filename, uploadedAt |-> 0,
   status |-> status, code |-> code, written |-> 0 - deleted, named |-> "",
   left |-> remaining]

ReceiveDelete ==
  /\ Len(history) + Len(runs) < MaxEvents
  /\ \A j \in 1..Len(runs) : ~InFlight(runs[j])
  /\ \E filename \in FileNames, force \in BOOLEAN :
       \E file \in DeleteFiles, dims \in ConcurrentDims :
       runs' = <<NewRun("blob", file, filename, force, dims, clock + 1)>>
  /\ history' = history \o Summaries(runs)
  /\ clock' = clock + 1
  /\ UNCHANGED <<store, idCounter, chunkVars, parserVars, clientVars>>

\* the DELETE handler: 404 when listFiles does not show the file (or
\* failed and returned []), otherwise deleteFileVectors and its count
DeleteFile ==
  /\ Len(history) + Len(runs) < MaxEvents
  /\ \A j \in 1..Len(runs) : ~InFlight(runs[j])
  /\ \E filename \in FileNames, listed \in BOOLEAN, outcome \in DeleteOutcomes :
       LET fileExists == listed /\ FileVectors(store, filename) # {}
           gone == Deleted(store, filename, outcome)
           remaining == Cardinality(FileVectors(store, filename) \ gone)
       IN  IF ~fileExists
           THEN /\ store' = store
                /\ history' = history \o Summaries(runs) \o
                     <<DeleteSummary(filename, 404, "NOT_FOUND", 0,
                                     Cardinality(FileVectors(store, filename)))>>
           ELSE IF outcome = "throws"
           THEN /\ store' = store
                /\ history' = history \o Summaries(runs) \o
                     <<DeleteSummary(filename, 500, "ERROR", 0, remaining)>>
           ELSE /\ store' = store \ gone
                /\ history' = history \o Summaries(runs) \o
                     <<DeleteSummary(filename, 200, "DELETED",
                                     Cardinality(gone), remaining)>>
  /\ runs' = <<>>
  /\ UNCHANGED <<idCounter, clock, chunkVars, parserVars, clientVars>>

NextDelete ==
  \/ ReceiveDelete
  \/ DeleteFile
  \/ \E j \in 1..Len(runs) : AfterHash(j)
  \/ \E j \in 1..Len(runs) : DupCheckFound(j)
  \/ \E j \in 1..Len(runs) : DupCheckNone(j)
  \/ \E j \in 1..Len(runs) : ParseOk(j)
  \/ \E j \in 1..Len(runs) : Chunk(j)
  \/ \E j \in 1..Len(runs) : EmbedOk(j)
  \/ \E j \in 1..Len(runs) : PrepareVectors(j)
  \/ \E j \in 1..Len(runs) : UpsertBatchOk(j)

SpecDelete == InitIngest /\ [][NextDelete]_vars

\* the last two requests before run r: a DUPLICATE_FILE rejection of r's
\* bytes naming a file, then a DELETE of that file that was answered with
\* a count
DeletedAfterRejection(r) ==
  LET n == Len(history) IN
  /\ n >= 2
  /\ history[n].route = "delete"
  /\ history[n].code = "DELETED"
  /\ history[n - 1].code = "DUPLICATE_FILE"
  /\ history[n - 1].file = r.file
  /\ history[n - 1].named = history[n].filename

\* C29: after a DUPLICATE_FILE rejection that names file F and a DELETE of
\* F that removed all records with that filename, a request ingesting the
\* same bytes without forceUpload is accepted, whatever ingestions and
\* forced re-uploads came before; after a DELETE that removed only part of
\* F's records it is rejected again.
C29_DeleteThenReingest ==
  \A j \in 1..Len(runs) :
    LET r == runs[j] IN
    (r.pc = "done" /\ ~r.forceUpload /\ r.dupError = "none"
       /\ DeletedAfterRejection(r))
    => IF history[Len(history)].left = 0
       THEN r.response.code = "OK"
       ELSE r.response.code = "DUPLICATE_FILE"

(***************************************************************************)
(* The tail of chunkSimple                                                 *)
(***************************************************************************)
Contains(a, b) == a.startIndex <= b.startIndex /\ b.endIndex <= a.endIndex

\* C30: in simple mode with 0 <= overlap < chunkSize, a chunk that ends at
\* the end of the text is the last chunk emitted, and no chunk's range
\* [startIndex, endIndex) lies wholly inside the range of the chunk emitted
\* just before it.
C30_NoChunkAfterTail ==
  (~useHeadings /\ 0 <= overlap /\ overlap < chunkSize) =>
    \A j \in 1..(Len(chunks) - 1) :
      /\ chunks[j].endIndex # Len(text)
      /\ ~Contains(chunks[j], chunks[j + 1])

====
